---- MODULE Spec2Model ----
(***************************************************************************)
(* A model of Electron Cash's PSBT codec (electroncash/psbt.py), of the    *)
(* transaction primitives it carries (electroncash/bitcoin_types.py) and   *)
(* of the CashToken output data embedded in locking scripts                *)
(* (electroncash/token.py).                                                *)
(*                                                                         *)
(* Bytes are the integers 0..255 and a byte string is a sequence of them.  *)
(* Python integers read from or written to the wire are kept as numbers in *)
(* base 256, least significant digit first, without leading zero digits    *)
(* ("Num"), so that 64-bit quantities keep their full width.  Lengths and  *)
(* counts of in-memory sequences are ordinary integers.                    *)
(* A Python dict is a sequence of <<key, value>> pairs with distinct keys, *)
(* in insertion order; dict equality ignores the order.                    *)
(***************************************************************************)
EXTENDS Integers, Sequences, FiniteSets, TLC

None == [none |-> TRUE]

Fill(n, b) == [i \in 1..n |-> b]

(***************************************************************************)
(* Numbers                                                                 *)
(***************************************************************************)
RECURSIVE Norm(_)
Norm(s) == IF s = <<>> THEN <<>>
           ELSE IF s[Len(s)] = 0 THEN Norm(SubSeq(s, 1, Len(s) - 1))
           ELSE s

Pad(n, w) == n \o Fill(w - Len(n), 0)

NumOfInt(i) == Norm(<<i % 256, (i \div 256) % 256, (i \div 65536) % 256>>)

\* The value of a Num as an integer; a Num of more than three digits is
\* larger than any buffer of the model and saturates.
IntOfNum(n) == IF Len(n) > 3 THEN 16777216
               ELSE LET p == Pad(n, 3) IN p[1] + 256 * p[2] + 65536 * p[3]

\* Two's complement of a fixed-width little-endian byte string.
RECURSIVE AddOne(_)
AddOne(s) == IF s = <<>> THEN <<>>
             ELSE IF s[1] = 255 THEN <<0>> \o AddOne(Tail(s))
             ELSE <<s[1] + 1>> \o Tail(s)

TwosNeg(s) == AddOne([i \in 1..Len(s) |-> 255 - s[i]])

\* A signed Python integer: its sign and its magnitude.
SignedOfBytes(s) == IF s[Len(s)] >= 128
                    THEN [neg |-> TRUE, mag |-> Norm(TwosNeg(s))]
                    ELSE [neg |-> FALSE, mag |-> Norm(s)]

SignedFits(v, w) == /\ Len(v.mag) <= w
                    /\ IF v.neg THEN Pad(v.mag, w)[w] < 128 \/ v.mag = Fill(w - 1, 0) \o <<128>>
                                ELSE Pad(v.mag, w)[w] < 128

BytesOfSigned(v, w) == IF v.neg THEN TwosNeg(Pad(v.mag, w)) ELSE Pad(v.mag, w)

Zero == [neg |-> FALSE, mag |-> <<>>]

(***************************************************************************)
(* BCDataStream (electroncash/serialize.py): a read cursor over a buffer,  *)
(* and a write buffer.  A read returns [ok, err, val, vds]; a failed read  *)
(* is a SerializationError.                                                *)
(***************************************************************************)
\* x bound to a value computed once: F(x)
Bind(x, F(_)) == F(x)

BCDataStream(data) == [input |-> data, read_cursor |-> 0]

can_read_more(vds) == vds.read_cursor < Len(vds.input)

Remaining(vds) == IF can_read_more(vds) THEN Len(vds.input) - vds.read_cursor ELSE 0

Advance(vds, n) == [vds EXCEPT !.read_cursor = @ + n]

ReadOk(v, vds) == [ok |-> TRUE, err |-> "", val |-> v, vds |-> vds]
ReadFail(vds) == [ok |-> FALSE, err |-> "SerializationError", val |-> <<>>, vds |-> vds]

\* read_bytes(length, strict): a short read fails only in strict mode.
read_bytes_n(vds, n, strict) ==
    IF n <= Remaining(vds)
    THEN ReadOk(SubSeq(vds.input, vds.read_cursor + 1, vds.read_cursor + n), Advance(vds, n))
    ELSE IF strict THEN ReadFail(vds)
    ELSE ReadOk(SubSeq(vds.input, vds.read_cursor + 1, Len(vds.input)), Advance(vds, n))

\* read_compact_size(strict): 1, 3, 5 or 9 bytes; strict rejects an
\* encoding longer than the value needs.
read_compact_size(vds, strict) ==
    IF ~can_read_more(vds) THEN ReadFail(vds)
    ELSE Bind(vds.input[vds.read_cursor + 1], LAMBDA b :
         IF b < 253 THEN ReadOk(NumOfInt(b), Advance(vds, 1))
         ELSE Bind(read_bytes_n(Advance(vds, 1), IF b = 253 THEN 2 ELSE IF b = 254 THEN 4 ELSE 8, TRUE),
              LAMBDA r :
              IF ~r.ok THEN ReadFail(vds)
              ELSE Bind(Norm(r.val), LAMBDA n :
                   IF strict /\ (\/ b = 253 /\ IntOfNum(n) < 253
                                 \/ b = 254 /\ Len(n) <= 2
                                 \/ b = 255 /\ Len(n) <= 4) THEN ReadFail(vds)
                   ELSE ReadOk(n, r.vds))))

\* read_bytes(strict=True) without a length: a compact-size length, then
\* that many bytes.
read_bytes(vds) ==
    Bind(read_compact_size(vds, TRUE), LAMBDA l :
    IF ~l.ok THEN ReadFail(vds)
    ELSE Bind(read_bytes_n(l.vds, IntOfNum(l.val), TRUE), LAMBDA r :
         IF r.ok THEN r ELSE ReadFail(vds)))

read_uint32(vds) ==
    Bind(read_bytes_n(vds, 4, TRUE), LAMBDA r :
    IF r.ok THEN ReadOk(Norm(r.val), r.vds) ELSE ReadFail(vds))

read_signed(vds, w) ==
    Bind(read_bytes_n(vds, w, TRUE), LAMBDA r :
    IF r.ok THEN ReadOk(SignedOfBytes(r.val), r.vds) ELSE ReadFail(vds))

read_int32(vds) == read_signed(vds, 4)
read_int64(vds) == read_signed(vds, 8)

\* Writes return [ok, err, out]: the bytes appended; a value out of the
\* format's range is an error of the packer.
WriteOk(b) == [ok |-> TRUE, err |-> "", out |-> b]
WriteFail == [ok |-> FALSE, err |-> "struct.error", out |-> <<>>]

write_compact_size(n) ==
    IF Len(n) <= 1 /\ IntOfNum(n) < 253 THEN WriteOk(<<IntOfNum(n)>>)
    ELSE IF Len(n) <= 2 THEN WriteOk(<<253>> \o Pad(n, 2))
    ELSE IF Len(n) <= 4 THEN WriteOk(<<254>> \o Pad(n, 4))
    ELSE IF Len(n) <= 8 THEN WriteOk(<<255>> \o Pad(n, 8))
    ELSE WriteFail

write_string(b) == write_compact_size(NumOfInt(Len(b))).out \o b

write_uint32(n) == IF Len(n) <= 4 THEN WriteOk(Pad(n, 4)) ELSE WriteFail

write_signed(v, w) == IF SignedFits(v, w) THEN WriteOk(BytesOfSigned(v, w)) ELSE WriteFail

write_int32(v) == write_signed(v, 4)
write_int64(v) == write_signed(v, 8)

(***************************************************************************)
(* Python dicts                                                            *)
(***************************************************************************)
DictKeys(d) == {d[i][1] : i \in 1..Len(d)}
DictHas(d, k) == \E i \in 1..Len(d) : d[i][1] = k
DictPut(d, k, v) == IF DictHas(d, k)
                    THEN [i \in 1..Len(d) |-> IF d[i][1] = k THEN <<k, v>> ELSE d[i]]
                    ELSE Append(d, <<k, v>>)
DictEq(a, b) == {a[i] : i \in 1..Len(a)} = {b[i] : i \in 1..Len(b)}

(***************************************************************************)
(* token.py: CashToken output data and its embedding in a locking script   *)
(***************************************************************************)
HasAmount == 16
HasNFT == 32
HasCommitmentLength == 64

PREFIX_BYTE == 239

OutputData(id, amount, commitment, bitfield) ==
    [id |-> id, bitfield |-> bitfield, amount |-> amount, commitment |-> commitment]

\* OutputData(): the constructor's defaults.
OutputDataDefault == OutputData(Fill(32, 0), NumOfInt(1), <<>>, HasAmount)

get_capability(self) == self.bitfield % 16
has_commitment_length(self) == (self.bitfield \div HasCommitmentLength) % 2 = 1
has_amount(self) == (self.bitfield \div HasAmount) % 2 = 1
has_nft(self) == (self.bitfield \div HasNFT) % 2 = 1

\* is_valid_bitfield comparing the capability with 3 in place of 2.
is_valid_bitfield_capability_3(self) ==
    LET s == self.bitfield - (self.bitfield % 16)
    IN IF s >= 128 \/ s = 0 THEN FALSE
       ELSE IF self.bitfield % 16 > 3 THEN FALSE
       ELSE IF ~has_nft(self) /\ ~has_amount(self) THEN FALSE
       ELSE IF ~has_nft(self) /\ (self.bitfield % 16) # 0 THEN FALSE
       ELSE IF ~has_nft(self) /\ has_commitment_length(self) THEN FALSE
       ELSE TRUE

is_valid_bitfield(self) ==
    LET s == self.bitfield - (self.bitfield % 16)
    IN IF s >= 128 \/ s = 0 THEN FALSE
       ELSE IF self.bitfield % 16 > 2 THEN FALSE
       ELSE IF ~has_nft(self) /\ ~has_amount(self) THEN FALSE
       ELSE IF ~has_nft(self) /\ (self.bitfield % 16) # 0 THEN FALSE
       ELSE IF ~has_nft(self) /\ has_commitment_length(self) THEN FALSE
       ELSE TRUE

\* amount > 2**63 - 1
AmountTooLarge(n) == Len(n) > 8 \/ (Len(n) = 8 /\ n[8] >= 128)

\* OutputData.deserialize without the check of a zero amount.
OutputData_deserialize_zero_amount(self, ds) ==
    Bind(read_bytes_n(ds, 32, TRUE), LAMBDA rid :
    IF ~rid.ok THEN [ReadFail(ds) EXCEPT !.val = self]
    ELSE Bind(read_bytes_n(rid.vds, 1, TRUE), LAMBDA rbf :
    IF ~rbf.ok THEN [ReadFail(ds) EXCEPT !.val = [self EXCEPT !.id = rid.val]]
    ELSE Bind([self EXCEPT !.id = rid.val, !.bitfield = rbf.val[1]], LAMBDA s2 :
    Bind(IF has_commitment_length(s2) THEN read_bytes(rbf.vds) ELSE ReadOk(<<>>, rbf.vds), LAMBDA rc :
    IF ~rc.ok THEN [ReadFail(ds) EXCEPT !.val = s2]
    ELSE Bind(IF has_amount(s2) THEN read_compact_size(rc.vds, TRUE) ELSE ReadOk(<<>>, rc.vds), LAMBDA ra :
    IF ~ra.ok THEN [ReadFail(ds) EXCEPT !.val = [s2 EXCEPT !.commitment = rc.val]]
    ELSE Bind([s2 EXCEPT !.commitment = rc.val, !.amount = ra.val], LAMBDA s4 :
    IF \/ ~is_valid_bitfield(s4)
       \/ AmountTooLarge(s4.amount)
       \/ (has_commitment_length(s4) /\ s4.commitment = <<>>)
    THEN [ReadFail(ds) EXCEPT !.val = s4]
    ELSE ReadOk(s4, ra.vds)))))))

\* OutputData.deserialize(ds=ds): fills self field by field; [ok, err, val, vds]
\* with val the receiver as the call leaves it.
OutputData_deserialize(self, ds) ==
    Bind(read_bytes_n(ds, 32, TRUE), LAMBDA rid :
    IF ~rid.ok THEN [ReadFail(ds) EXCEPT !.val = self]
    ELSE Bind(read_bytes_n(rid.vds, 1, TRUE), LAMBDA rbf :
    IF ~rbf.ok THEN [ReadFail(ds) EXCEPT !.val = [self EXCEPT !.id = rid.val]]
    ELSE Bind([self EXCEPT !.id = rid.val, !.bitfield = rbf.val[1]], LAMBDA s2 :
    Bind(IF has_commitment_length(s2) THEN read_bytes(rbf.vds) ELSE ReadOk(<<>>, rbf.vds), LAMBDA rc :
    IF ~rc.ok THEN [ReadFail(ds) EXCEPT !.val = s2]
    ELSE Bind(IF has_amount(s2) THEN read_compact_size(rc.vds, TRUE) ELSE ReadOk(<<>>, rc.vds), LAMBDA ra :
    IF ~ra.ok THEN [ReadFail(ds) EXCEPT !.val = [s2 EXCEPT !.commitment = rc.val]]
    ELSE Bind([s2 EXCEPT !.commitment = rc.val, !.amount = ra.val], LAMBDA s4 :
    IF \/ ~is_valid_bitfield(s4)
       \/ (has_amount(s4) /\ s4.amount = <<>>)
       \/ AmountTooLarge(s4.amount)
       \/ (has_commitment_length(s4) /\ s4.commitment = <<>>)
       \/ (s4.amount = <<>> /\ ~has_nft(s4))
    THEN [ReadFail(ds) EXCEPT !.val = s4]
    ELSE ReadOk(s4, ra.vds)))))))

\* OutputData.serialize() writing the amount before the commitment.
OutputData_serialize_amount_first(self) ==
    LET wc == write_compact_size(NumOfInt(Len(self.commitment)))
        wa == write_compact_size(self.amount)
    IN IF self.bitfield \notin 0..255 THEN WriteFail
       ELSE IF has_amount(self) /\ ~wa.ok THEN WriteFail
       ELSE WriteOk(self.id \o <<self.bitfield>>
                    \o (IF has_amount(self) THEN wa.out ELSE <<>>)
                    \o (IF has_commitment_length(self) THEN wc.out \o self.commitment ELSE <<>>))

\* OutputData.serialize(): the optional fields follow the bitfield alone.
OutputData_serialize(self) ==
    LET wc == write_compact_size(NumOfInt(Len(self.commitment)))
        wa == write_compact_size(self.amount)
    IN IF self.bitfield \notin 0..255 THEN WriteFail
       ELSE IF has_amount(self) /\ ~wa.ok THEN WriteFail
       ELSE WriteOk(self.id \o <<self.bitfield>>
                    \o (IF has_commitment_length(self) THEN wc.out \o self.commitment ELSE <<>>)
                    \o (IF has_amount(self) THEN wa.out ELSE <<>>))

\* wrap_spk returning the script alone.
wrap_spk_script_only(token_data, script_pub_key) == WriteOk(script_pub_key)

wrap_spk(token_data, script_pub_key) ==
    IF token_data = None THEN WriteOk(script_pub_key)
    ELSE Bind(OutputData_serialize(token_data), LAMBDA ser :
         IF ~ser.ok THEN ser
         ELSE WriteOk(<<PREFIX_BYTE>> \o ser.out \o script_pub_key))

\* unwrap_spk without its try ... except SerializationError.
unwrap_spk_raising(wrapped_spk) ==
    IF wrapped_spk = <<>> \/ wrapped_spk[1] # PREFIX_BYTE
    THEN [err |-> "", token_data |-> None, spk |-> wrapped_spk]
    ELSE Bind(OutputData_deserialize(OutputDataDefault, Advance(BCDataStream(wrapped_spk), 1)), LAMBDA r :
         IF ~r.ok
         THEN [err |-> r.err, token_data |-> None, spk |-> <<>>]
         ELSE [err |-> "", token_data |-> r.val,
               spk |-> SubSeq(wrapped_spk, r.vds.read_cursor + 1, Len(wrapped_spk))])

\* unwrap_spk: [err, token_data, spk]; a SerializationError of the token
\* data is caught and the whole input is the script.
unwrap_spk(wrapped_spk) ==
    IF wrapped_spk = <<>> \/ wrapped_spk[1] # PREFIX_BYTE
    THEN [err |-> "", token_data |-> None, spk |-> wrapped_spk]
    ELSE Bind(OutputData_deserialize(OutputDataDefault, Advance(BCDataStream(wrapped_spk), 1)), LAMBDA r :
         IF ~r.ok
         THEN IF r.err = "SerializationError"
              THEN [err |-> "", token_data |-> None, spk |-> wrapped_spk]
              ELSE [err |-> r.err, token_data |-> None, spk |-> <<>>]
         ELSE [err |-> "", token_data |-> r.val,
               spk |-> SubSeq(wrapped_spk, r.vds.read_cursor + 1, Len(wrapped_spk))])

(***************************************************************************)
(* bitcoin_types.py: outpoints, inputs, outputs, transactions              *)
(***************************************************************************)
SEQUENCE_FINAL == Fill(4, 255)

COutPoint(txid, n) == [txid |-> txid, n |-> n]
CTxIn(prevout, script_sig, sequence) ==
    [prevout |-> prevout, script_sig |-> script_sig, sequence |-> sequence]
CTxOut(value, script_pub_key, token_data) ==
    [value |-> value, script_pub_key |-> script_pub_key, token_data |-> token_data]
CMutableTransaction(vin, vout, version, locktime) ==
    [vin |-> vin, vout |-> vout, version |-> version, locktime |-> locktime]

COutPointDefault == COutPoint(Fill(32, 0), <<>>)
CTxInDefault == CTxIn(COutPointDefault, <<>>, SEQUENCE_FINAL)
CTxOutDefault == CTxOut(Zero, <<>>, None)
CMutableTransactionDefault == CMutableTransaction(<<>>, <<>>, [neg |-> FALSE, mag |-> <<2>>], <<>>)

COutPoint_serialize(self) ==
    Bind(write_uint32(self.n), LAMBDA wn :
    IF Len(self.txid) # 32 THEN [WriteFail EXCEPT !.err = "AssertionError"]
    ELSE IF ~wn.ok THEN wn
    ELSE WriteOk(self.txid \o wn.out))

COutPoint_deserialize(self, vds) ==
    Bind(read_bytes_n(vds, 32, TRUE), LAMBDA rt :
    IF ~rt.ok THEN [ReadFail(vds) EXCEPT !.val = self]
    ELSE Bind(read_uint32(rt.vds), LAMBDA rn :
         IF ~rn.ok THEN [ReadFail(vds) EXCEPT !.val = [self EXCEPT !.txid = rt.val]]
         ELSE ReadOk([self EXCEPT !.txid = rt.val, !.n = rn.val], rn.vds)))

\* CTxIn.serialize writing the sequence before the script.
CTxIn_serialize_sequence_first(self) ==
    Bind(COutPoint_serialize(self.prevout), LAMBDA wp :
    IF ~wp.ok THEN wp
    ELSE Bind(write_uint32(self.sequence), LAMBDA ws :
         IF ~ws.ok THEN ws
         ELSE WriteOk(wp.out \o ws.out \o write_string(self.script_sig))))

CTxIn_serialize(self) ==
    Bind(COutPoint_serialize(self.prevout), LAMBDA wp :
    IF ~wp.ok THEN wp
    ELSE Bind(write_uint32(self.sequence), LAMBDA ws :
         IF ~ws.ok THEN ws
         ELSE WriteOk(wp.out \o write_string(self.script_sig) \o ws.out)))

CTxIn_deserialize(self, vds) ==
    Bind(COutPoint_deserialize(self.prevout, vds), LAMBDA rp :
    IF ~rp.ok THEN [ReadFail(vds) EXCEPT !.val = [self EXCEPT !.prevout = rp.val]]
    ELSE Bind(read_bytes(rp.vds), LAMBDA rs :
    IF ~rs.ok THEN [ReadFail(vds) EXCEPT !.val = [self EXCEPT !.prevout = rp.val]]
    ELSE Bind(read_uint32(rs.vds), LAMBDA rq :
    IF ~rq.ok THEN [ReadFail(vds) EXCEPT !.val = [self EXCEPT !.prevout = rp.val, !.script_sig = rs.val]]
    ELSE ReadOk([self EXCEPT !.prevout = rp.val, !.script_sig = rs.val, !.sequence = rq.val], rq.vds))))

CTxOut_serialize(self) ==
    Bind(write_int64(self.value), LAMBDA wv :
    IF ~wv.ok THEN wv
    ELSE Bind(wrap_spk(self.token_data, self.script_pub_key), LAMBDA wspk :
         IF ~wspk.ok THEN wspk
         ELSE WriteOk(wv.out \o write_string(wspk.out))))

CTxOut_deserialize(self, vds) ==
    Bind(read_int64(vds), LAMBDA rv :
    IF ~rv.ok THEN [ReadFail(vds) EXCEPT !.val = self]
    ELSE Bind(read_bytes(rv.vds), LAMBDA rb :
    IF ~rb.ok THEN [ReadFail(vds) EXCEPT !.val = [self EXCEPT !.value = rv.val]]
    ELSE Bind(unwrap_spk(rb.val), LAMBDA u :
    IF u.err # "" THEN [ReadFail(vds) EXCEPT !.err = u.err, !.val = [self EXCEPT !.value = rv.val]]
    ELSE ReadOk([self EXCEPT !.value = rv.val, !.token_data = u.token_data,
                             !.script_pub_key = u.spk], rb.vds))))

\* The loops of CMutableTransaction.deserialize: [ok, err, val, vds] with
\* val the list as far as it was filled.
RECURSIVE ReadVin(_, _, _)
ReadVin(vds, count, acc) ==
    IF count = 0 THEN ReadOk(acc, vds)
    ELSE Bind(CTxIn_deserialize(CTxInDefault, vds), LAMBDA r :
         IF ~r.ok THEN [r EXCEPT !.val = acc]
         ELSE ReadVin(r.vds, count - 1, Append(acc, r.val)))

RECURSIVE ReadVout(_, _, _)
ReadVout(vds, count, acc) ==
    IF count = 0 THEN ReadOk(acc, vds)
    ELSE Bind(CTxOut_deserialize(CTxOutDefault, vds), LAMBDA r :
         IF ~r.ok THEN [r EXCEPT !.val = acc]
         ELSE ReadVout(r.vds, count - 1, Append(acc, r.val)))

CMutableTransaction_deserialize(self, vds) ==
    Bind(read_int32(vds), LAMBDA rv :
    IF ~rv.ok THEN [ReadFail(vds) EXCEPT !.val = self]
    ELSE Bind([self EXCEPT !.version = rv.val], LAMBDA s1 :
    Bind(read_compact_size(rv.vds, TRUE), LAMBDA ni :
    IF ~ni.ok THEN [ReadFail(vds) EXCEPT !.val = s1]
    ELSE Bind(ReadVin(ni.vds, IntOfNum(ni.val), <<>>), LAMBDA ri :
    Bind([s1 EXCEPT !.vin = ri.val], LAMBDA s2 :
    IF ~ri.ok THEN [ReadFail(vds) EXCEPT !.err = ri.err, !.val = s2]
    ELSE Bind(read_compact_size(ri.vds, TRUE), LAMBDA no :
    IF ~no.ok THEN [ReadFail(vds) EXCEPT !.val = s2]
    ELSE Bind(ReadVout(no.vds, IntOfNum(no.val), <<>>), LAMBDA ro :
    Bind([s2 EXCEPT !.vout = ro.val], LAMBDA s3 :
    IF ~ro.ok THEN [ReadFail(vds) EXCEPT !.err = ro.err, !.val = s3]
    ELSE Bind(read_uint32(ro.vds), LAMBDA rl :
    IF ~rl.ok THEN [ReadFail(vds) EXCEPT !.val = s3]
    ELSE ReadOk([s3 EXCEPT !.locktime = rl.val], rl.vds))))))))))

RECURSIVE SerializeAll(_, _, _)
\* for x in xs: x.serialize(vds); ser is the element's serializer and acc
\* what vds holds so far
SerializeAll(ser(_), xs, acc) ==
    IF xs = <<>> THEN WriteOk(acc)
    ELSE Bind(ser(Head(xs)), LAMBDA w :
         IF ~w.ok THEN [w EXCEPT !.out = acc \o w.out]
         ELSE SerializeAll(ser, Tail(xs), acc \o w.out))

CMutableTransaction_serialize(self) ==
    Bind(write_int32(self.version), LAMBDA wv :
    IF ~wv.ok THEN wv
    ELSE Bind(SerializeAll(CTxIn_serialize, self.vin, <<>>), LAMBDA wi :
    IF ~wi.ok THEN [wi EXCEPT !.out = <<>>]
    ELSE Bind(SerializeAll(CTxOut_serialize, self.vout, <<>>), LAMBDA wo :
    IF ~wo.ok THEN [wo EXCEPT !.out = <<>>]
    ELSE Bind(write_uint32(self.locktime), LAMBDA wl :
    IF ~wl.ok THEN wl
    ELSE WriteOk(wv.out \o write_compact_size(NumOfInt(Len(self.vin))).out \o wi.out
                 \o write_compact_size(NumOfInt(Len(self.vout))).out \o wo.out \o wl.out)))))


\* uint256 and TxId on their own: [data]
uint256(data) == [data |-> data]

uint256_serialize(self) ==
    IF Len(self.data) # 32 THEN [WriteFail EXCEPT !.err = "AssertionError"]
    ELSE WriteOk(self.data)

uint256_deserialize(self, vds) ==
    Bind(read_bytes_n(vds, 32, TRUE), LAMBDA r :
    IF ~r.ok THEN [ReadFail(vds) EXCEPT !.val = self]
    ELSE ReadOk([self EXCEPT !.data = r.val], r.vds))
(***************************************************************************)
(* psbt.py                                                                 *)
(***************************************************************************)
PSBT_MAGIC_BYTES == <<112, 115, 98, 116, 255>>

PSBT_GLOBAL_UNSIGNED_TX == 0

PSBT_IN_UTXO == 0
PSBT_IN_PARTIAL_SIG == 2
PSBT_IN_SIGHASH == 3
PSBT_IN_REDEEMSCRIPT == 4
PSBT_IN_BIP32_DERIVATION == 6
PSBT_IN_SCRIPTSIG == 7

PSBT_OUT_REDEEMSCRIPT == 0
PSBT_OUT_BIP32_DERIVATION == 2

PSBT_SEPARATOR == <<>>

Raise(err, vds, self) == [ok |-> FALSE, err |-> err, val |-> self, vds |-> vds]
Return(vds, self) == [ok |-> TRUE, err |-> "", val |-> self, vds |-> vds]

KeyOriginInfo(fingerprint, path) == [fingerprint |-> fingerprint, path |-> path]

\* bitcoin.ser_to_point succeeds: a compressed or uncompressed encoding of
\* a point of the curve.  The curve equation is opaque here: an encoding
\* whose x coordinate starts with the byte 255 stands for one that is not
\* on the curve.
IsPoint(pubkey) ==
    /\ \/ Len(pubkey) = 33 /\ pubkey[1] \in {2, 3}
       \/ Len(pubkey) = 65 /\ pubkey[1] = 4
    /\ pubkey[2] # 255

\* bitcoin.hash_160: an opaque, collision-free digest.
hash_160(pubkey) == [hash160 |-> pubkey]

\* _deserialize_unknown without the check of the key.
_deserialize_unknown_overwriting(vds, key, unknown) ==
    Bind(read_bytes(vds), LAMBDA val :
    IF ~val.ok THEN Raise(val.err, vds, unknown)
    ELSE Return(val.vds, DictPut(unknown, key, val.val)))

\* _deserialize_unknown filing the value under the key's type byte.
_deserialize_unknown_by_type(vds, key, unknown) ==
    IF DictHas(unknown, key) THEN Raise("PSBTSerializationError", vds, unknown)
    ELSE Bind(read_bytes(vds), LAMBDA val :
         IF ~val.ok THEN Raise(val.err, vds, unknown)
         ELSE Return(val.vds, DictPut(unknown, <<key[1]>>, val.val)))

_deserialize_unknown(vds, key, unknown) ==
    IF DictHas(unknown, key) THEN Raise("PSBTSerializationError", vds, unknown)
    ELSE Bind(read_bytes(vds), LAMBDA val :
         IF ~val.ok THEN Raise(val.err, vds, unknown)
         ELSE Return(val.vds, DictPut(unknown, key, val.val)))

\* _serialize_unknown forgetting the entries.
_serialize_unknown_skipped(unknown) == <<>>

RECURSIVE _serialize_unknown_reversed(_)
\* _serialize_unknown iterating over reversed(unknown.items()).
_serialize_unknown_reversed(unknown) ==
    IF unknown = <<>> THEN <<>>
    ELSE _serialize_unknown_reversed(Tail(unknown))
         \o write_string(Head(unknown)[1]) \o write_string(Head(unknown)[2])

RECURSIVE _serialize_unknown(_)
_serialize_unknown(unknown) ==
    IF unknown = <<>> THEN <<>>
    ELSE write_string(Head(unknown)[1]) \o write_string(Head(unknown)[2])
         \o _serialize_unknown(Tail(unknown))

_validate_pubkey(pubkey) == IsPoint(pubkey)

\* _parse_pubkey without its checks.
_parse_pubkey_unchecked(psbt_key) == [ok |-> TRUE, err |-> "", val |-> Tail(psbt_key)]

\* _parse_pubkey: [ok, err, val]
_parse_pubkey(psbt_key) ==
    IF Len(psbt_key) # 66 /\ Len(psbt_key) # 34
    THEN [ok |-> FALSE, err |-> "PSBTSerializationError", val |-> <<>>]
    ELSE IF ~_validate_pubkey(Tail(psbt_key))
    THEN [ok |-> FALSE, err |-> "PSBTSerializationError", val |-> <<>>]
    ELSE [ok |-> TRUE, err |-> "", val |-> Tail(psbt_key)]

\* The loop of _deserialize_hd_keypath reading one index only.
ReadPath_once(vds2, path) ==
    IF ~can_read_more(vds2) THEN ReadOk(path, vds2)
    ELSE Bind(read_uint32(vds2), LAMBDA index :
         IF ~index.ok THEN [index EXCEPT !.val = path]
         ELSE ReadOk(Append(path, index.val), index.vds))

RECURSIVE ReadPath(_, _)
\* while vds2.can_read_more(): keypath.path.append(vds2.read_uint32())
ReadPath(vds2, path) ==
    IF ~can_read_more(vds2) THEN ReadOk(path, vds2)
    ELSE Bind(read_uint32(vds2), LAMBDA index :
         IF ~index.ok THEN [index EXCEPT !.val = path]
         ELSE ReadPath(index.vds, Append(path, index.val)))

_deserialize_hd_keypath(vds, psbt_key, hd_keypaths) ==
    Bind(_parse_pubkey(psbt_key), LAMBDA pubkey :
    IF ~pubkey.ok THEN Raise(pubkey.err, vds, hd_keypaths)
    ELSE IF DictHas(hd_keypaths, pubkey.val) THEN Raise("PSBTSerializationError", vds, hd_keypaths)
    ELSE Bind(read_bytes(vds), LAMBDA value :
    IF ~value.ok THEN Raise(value.err, vds, hd_keypaths)
    ELSE IF Len(value.val) <= 0 \/ Len(value.val) % 4 # 0
         THEN Raise("PSBTSerializationError", value.vds, hd_keypaths)
    ELSE Bind(read_bytes_n(BCDataStream(value.val), 4, TRUE), LAMBDA fingerprint :
    IF ~fingerprint.ok THEN Raise(fingerprint.err, value.vds, hd_keypaths)
    ELSE Bind(ReadPath(fingerprint.vds, <<>>), LAMBDA path :
    IF ~path.ok THEN Raise(path.err, value.vds, hd_keypaths)
    ELSE IF Len(value.val) # (Len(path.val) + 1) * 4 THEN Raise("AssertionError", value.vds, hd_keypaths)
    ELSE Return(value.vds, DictPut(hd_keypaths, pubkey.val, KeyOriginInfo(fingerprint.val, path.val)))))))

RECURSIVE WritePath(_, _)
\* for path in keypath.path: vds2.write_uint32(path); acc is vds2 so far
WritePath(path, acc) ==
    IF path = <<>> THEN WriteOk(acc)
    ELSE Bind(write_uint32(Head(path)), LAMBDA w :
         IF ~w.ok THEN w ELSE WritePath(Tail(path), acc \o w.out))

RECURSIVE _serialize_hd_keypaths(_, _, _)
\* [ok, err, out]: out holds what was written, also when an entry raises.
_serialize_hd_keypaths(hd_keypaths, typ, acc) ==
    IF hd_keypaths = <<>> THEN WriteOk(acc)
    ELSE Bind(Head(hd_keypaths)[1], LAMBDA pubkey :
         Bind(Head(hd_keypaths)[2], LAMBDA keypath :
         IF ~_validate_pubkey(pubkey)
         THEN [ok |-> FALSE, err |-> "PSBTSerializationError", out |-> acc]
         ELSE Bind(acc \o write_string(<<typ>> \o pubkey), LAMBDA withkey :
         IF Len(keypath.fingerprint) # 4
         THEN [ok |-> FALSE, err |-> "PSBTSerializationError", out |-> withkey]
         ELSE Bind(WritePath(keypath.path, keypath.fingerprint), LAMBDA path :
         IF ~path.ok THEN [ok |-> FALSE, err |-> path.err, out |-> withkey]
         ELSE _serialize_hd_keypaths(Tail(hd_keypaths), typ,
                  withkey \o write_string(path.out))))))

PSBTInput(utxo, final_script_sig, partial_sigs, sighash_type, redeem_script, hd_keypaths, unknown) ==
    [utxo |-> utxo, final_script_sig |-> final_script_sig, partial_sigs |-> partial_sigs,
     sighash_type |-> sighash_type, redeem_script |-> redeem_script,
     hd_keypaths |-> hd_keypaths, unknown |-> unknown]

\* PSBTInput(), and PSBTInput._clear()
PSBTInput_clear == PSBTInput(None, <<>>, <<>>, <<>>, <<>>, <<>>, <<>>)

PSBTInput_eq(a, b) ==
    /\ a.redeem_script = b.redeem_script
    /\ DictEq(a.hd_keypaths, b.hd_keypaths)
    /\ DictEq(a.unknown, b.unknown)
    /\ a.utxo = b.utxo
    /\ a.final_script_sig = b.final_script_sig
    /\ DictEq(a.partial_sigs, b.partial_sigs)
    /\ a.sighash_type = b.sighash_type

\* One pass of the loop of PSBTInput.deserialize for a non-empty key.
PSBTInput_entry(self, vds, key) ==
    IF key[1] = PSBT_IN_UTXO THEN
        IF self.utxo # None THEN Raise("PSBTSerializationError", vds, self)
        ELSE IF Len(key) # 1 THEN Raise("PSBTSerializationError", vds, self)
        ELSE Bind(read_bytes(vds), LAMBDA data :
        IF ~data.ok THEN Raise(data.err, vds, self)
        ELSE Bind(CTxOut_deserialize(CTxOutDefault, BCDataStream(data.val)), LAMBDA utxo :
        IF ~utxo.ok THEN Raise(utxo.err, data.vds, [self EXCEPT !.utxo = utxo.val])
        ELSE IF can_read_more(utxo.vds)
        THEN Raise("PSBTSerializationError", data.vds, [self EXCEPT !.utxo = utxo.val])
        ELSE Return(data.vds, [self EXCEPT !.utxo = utxo.val])))
    ELSE IF key[1] = PSBT_IN_PARTIAL_SIG THEN
        Bind(_parse_pubkey(key), LAMBDA pubkey :
        IF ~pubkey.ok THEN Raise(pubkey.err, vds, self)
        ELSE IF DictHas(self.partial_sigs, hash_160(pubkey.val))
        THEN Raise("PSBTSerializationError", vds, self)
        ELSE Bind(read_bytes(vds), LAMBDA sig :
        IF ~sig.ok THEN Raise(sig.err, vds, self)
        ELSE Return(sig.vds, [self EXCEPT !.partial_sigs =
                                 DictPut(@, hash_160(pubkey.val), <<pubkey.val, sig.val>>)])))
    ELSE IF key[1] = PSBT_IN_SIGHASH THEN
        IF self.sighash_type # <<>> THEN Raise("PSBTSerializationError", vds, self)
        ELSE IF Len(key) # 1 THEN Raise("PSBTSerializationError", vds, self)
        ELSE Bind(read_bytes(vds), LAMBDA data :
        IF ~data.ok THEN Raise(data.err, vds, self)
        ELSE Bind(read_uint32(BCDataStream(data.val)), LAMBDA sighash :
        IF ~sighash.ok THEN Raise(sighash.err, data.vds, self)
        ELSE IF can_read_more(sighash.vds)
        THEN Raise("PSBTSerializationError", data.vds, [self EXCEPT !.sighash_type = sighash.val])
        ELSE Return(data.vds, [self EXCEPT !.sighash_type = sighash.val])))
    ELSE IF key[1] = PSBT_IN_REDEEMSCRIPT THEN
        IF self.redeem_script # <<>> THEN Raise("PSBTSerializationError", vds, self)
        ELSE IF Len(key) # 1 THEN Raise("PSBTSerializationError", vds, self)
        ELSE Bind(read_bytes(vds), LAMBDA data :
        IF ~data.ok THEN Raise(data.err, vds, self)
        ELSE Return(data.vds, [self EXCEPT !.redeem_script = data.val]))
    ELSE IF key[1] = PSBT_IN_BIP32_DERIVATION THEN
        Bind(_deserialize_hd_keypath(vds, key, self.hd_keypaths), LAMBDA r :
        IF ~r.ok THEN Raise(r.err, r.vds, self)
        ELSE Return(r.vds, [self EXCEPT !.hd_keypaths = r.val]))
    ELSE IF key[1] = PSBT_IN_SCRIPTSIG THEN
        IF self.final_script_sig # <<>> THEN Raise("PSBTSerializationError", vds, self)
        ELSE IF Len(key) # 1 THEN Raise("PSBTSerializationError", vds, self)
        ELSE Bind(read_bytes(vds), LAMBDA data :
        IF ~data.ok THEN Raise(data.err, vds, self)
        ELSE Return(data.vds, [self EXCEPT !.final_script_sig = data.val]))
    ELSE
        Bind(_deserialize_unknown(vds, key, self.unknown), LAMBDA r :
        IF ~r.ok THEN Raise(r.err, r.vds, self)
        ELSE Return(r.vds, [self EXCEPT !.unknown = r.val]))

RECURSIVE PSBTInput_loop(_, _)
PSBTInput_loop(self, vds) ==
    IF ~can_read_more(vds) THEN Return(vds, self)
    ELSE Bind(read_bytes(vds), LAMBDA key :
         IF ~key.ok THEN Raise(key.err, vds, self)
         ELSE IF Len(key.val) = 0 THEN Return(key.vds, self)
         ELSE Bind(PSBTInput_entry(self, key.vds, key.val), LAMBDA r :
              IF ~r.ok THEN r ELSE PSBTInput_loop(r.val, r.vds)))

\* PSBTInput.deserialize(vds): clears the receiver, then reads one map.
\* PSBTInput.deserialize without its self._clear().
PSBTInput_deserialize_merging(self, vds) == PSBTInput_loop(self, vds)

PSBTInput_deserialize(self, vds) == PSBTInput_loop(PSBTInput_clear, vds)

\* The loop over partial_sigs writing nothing.
SerializePartialSigs_skipped(partial_sigs) == <<>>

RECURSIVE SerializePartialSigs(_)
SerializePartialSigs(partial_sigs) ==
    IF partial_sigs = <<>> THEN <<>>
    ELSE write_string(<<PSBT_IN_PARTIAL_SIG>> \o Head(partial_sigs)[2][1])
         \o write_string(Head(partial_sigs)[2][2])
         \o SerializePartialSigs(Tail(partial_sigs))

\* PSBTInput.serialize writing the signing data of a finalized input too.
PSBTInput_serialize_all_fields(self) ==
    Bind(IF self.utxo # None THEN CTxOut_serialize(self.utxo) ELSE WriteOk(<<>>), LAMBDA utxo :
    IF ~utxo.ok THEN [ok |-> FALSE, err |-> utxo.err, out |-> write_string(<<PSBT_IN_UTXO>>)]
    ELSE Bind(_serialize_hd_keypaths(self.hd_keypaths, PSBT_IN_BIP32_DERIVATION,
                  (IF self.utxo # None
                   THEN write_string(<<PSBT_IN_UTXO>>) \o write_string(utxo.out)
                   ELSE <<>>)
                  \o SerializePartialSigs(self.partial_sigs)
                  \o (IF self.sighash_type # <<>>
                      THEN write_string(<<PSBT_IN_SIGHASH>>)
                           \o write_string(write_uint32(self.sighash_type).out)
                      ELSE <<>>)
                  \o (IF self.redeem_script # <<>>
                      THEN write_string(<<PSBT_IN_REDEEMSCRIPT>>) \o write_string(self.redeem_script)
                      ELSE <<>>)), LAMBDA hd :
    IF ~hd.ok THEN hd
    ELSE WriteOk(hd.out
                 \o (IF self.final_script_sig # <<>>
                     THEN write_string(<<PSBT_IN_SCRIPTSIG>>) \o write_string(self.final_script_sig)
                     ELSE <<>>)
                 \o _serialize_unknown(self.unknown) \o write_string(PSBT_SEPARATOR))))

\* PSBTInput.serialize(vds): [ok, err, out]
PSBTInput_serialize(self) ==
    Bind(IF self.utxo # None THEN CTxOut_serialize(self.utxo) ELSE WriteOk(<<>>), LAMBDA utxo :
    IF ~utxo.ok THEN [ok |-> FALSE, err |-> utxo.err, out |-> write_string(<<PSBT_IN_UTXO>>)]
    ELSE Bind(IF self.utxo # None
              THEN write_string(<<PSBT_IN_UTXO>>) \o write_string(utxo.out)
              ELSE <<>>, LAMBDA w_utxo :
    IF self.final_script_sig = <<>>
    THEN Bind(w_utxo \o SerializePartialSigs(self.partial_sigs), LAMBDA w_sigs :
         Bind(write_uint32(self.sighash_type), LAMBDA sighash :
         IF self.sighash_type # <<>> /\ ~sighash.ok
         THEN [ok |-> FALSE, err |-> sighash.err, out |-> w_sigs \o write_string(<<PSBT_IN_SIGHASH>>)]
         ELSE Bind(_serialize_hd_keypaths(self.hd_keypaths, PSBT_IN_BIP32_DERIVATION,
                       w_sigs
                       \o (IF self.sighash_type # <<>>
                           THEN write_string(<<PSBT_IN_SIGHASH>>) \o write_string(sighash.out)
                           ELSE <<>>)
                       \o (IF self.redeem_script # <<>>
                           THEN write_string(<<PSBT_IN_REDEEMSCRIPT>>) \o write_string(self.redeem_script)
                           ELSE <<>>)), LAMBDA hd :
         IF ~hd.ok THEN hd
         ELSE WriteOk(hd.out \o _serialize_unknown(self.unknown) \o write_string(PSBT_SEPARATOR)))))
    ELSE WriteOk(w_utxo \o write_string(<<PSBT_IN_SCRIPTSIG>>) \o write_string(self.final_script_sig)
                 \o _serialize_unknown(self.unknown) \o write_string(PSBT_SEPARATOR))))

PSBTOutput(redeem_script, hd_keypaths, unknown) ==
    [redeem_script |-> redeem_script, hd_keypaths |-> hd_keypaths, unknown |-> unknown]

\* PSBTOutput(), and _PSBTInputOutputBase._clear()
PSBTOutput_clear == PSBTOutput(<<>>, <<>>, <<>>)

PSBTOutput_eq(a, b) ==
    /\ a.redeem_script = b.redeem_script
    /\ DictEq(a.hd_keypaths, b.hd_keypaths)
    /\ DictEq(a.unknown, b.unknown)

PSBTOutput_entry(self, vds, key) ==
    IF key[1] = PSBT_OUT_REDEEMSCRIPT THEN
        IF self.redeem_script # <<>> THEN Raise("PSBTSerializationError", vds, self)
        ELSE IF Len(key) # 1 THEN Raise("PSBTSerializationError", vds, self)
        ELSE Bind(read_bytes(vds), LAMBDA data :
        IF ~data.ok THEN Raise(data.err, vds, self)
        ELSE Return(data.vds, [self EXCEPT !.redeem_script = data.val]))
    ELSE IF key[1] = PSBT_OUT_BIP32_DERIVATION THEN
        Bind(_deserialize_hd_keypath(vds, key, self.hd_keypaths), LAMBDA r :
        IF ~r.ok THEN Raise(r.err, r.vds, self)
        ELSE Return(r.vds, [self EXCEPT !.hd_keypaths = r.val]))
    ELSE
        Bind(_deserialize_unknown(vds, key, self.unknown), LAMBDA r :
        IF ~r.ok THEN Raise(r.err, r.vds, self)
        ELSE Return(r.vds, [self EXCEPT !.unknown = r.val]))

RECURSIVE PSBTOutput_loop(_, _)
PSBTOutput_loop(self, vds) ==
    IF ~can_read_more(vds) THEN Return(vds, self)
    ELSE Bind(read_bytes(vds), LAMBDA key :
         IF ~key.ok THEN Raise(key.err, vds, self)
         ELSE IF Len(key.val) = 0 THEN Return(key.vds, self)
         ELSE Bind(PSBTOutput_entry(self, key.vds, key.val), LAMBDA r :
              IF ~r.ok THEN r ELSE PSBTOutput_loop(r.val, r.vds)))

PSBTOutput_deserialize(self, vds) == PSBTOutput_loop(PSBTOutput_clear, vds)

PSBTOutput_serialize(self) ==
    Bind(_serialize_hd_keypaths(self.hd_keypaths, PSBT_OUT_BIP32_DERIVATION,
             IF self.redeem_script # <<>>
             THEN write_string(<<PSBT_OUT_REDEEMSCRIPT>>) \o write_string(self.redeem_script)
             ELSE <<>>), LAMBDA hd :
    IF ~hd.ok THEN hd
    ELSE WriteOk(hd.out \o _serialize_unknown(self.unknown) \o write_string(PSBT_SEPARATOR)))

PSBT(tx, inputs, outputs, unknown) ==
    [tx |-> tx, inputs |-> inputs, outputs |-> outputs, unknown |-> unknown]

\* PSBT(), and PSBT._clear()
PSBT_clear == PSBT(None, <<>>, <<>>, <<>>)

SeqEq(eq(_, _), a, b) == Len(a) = Len(b) /\ \A i \in 1..Len(a) : eq(a[i], b[i])

PSBT_eq(a, b) ==
    /\ a.tx = b.tx
    /\ SeqEq(PSBTInput_eq, a.inputs, b.inputs)
    /\ SeqEq(PSBTOutput_eq, a.outputs, b.outputs)
    /\ DictEq(a.unknown, b.unknown)

\* The global map's loop without the check of the inputs' scriptSigs.
PSBT_global_entry_any_script(self, vds, key) ==
    IF key[1] = PSBT_GLOBAL_UNSIGNED_TX THEN
        IF Len(key) # 1 THEN Raise("PSBTSerializationError", vds, self)
        ELSE IF self.tx # None THEN Raise("PSBTSerializationError", vds, self)
        ELSE Bind(read_bytes(vds), LAMBDA txdata :
        IF ~txdata.ok THEN Raise(txdata.err, vds, self)
        ELSE Bind(CMutableTransaction_deserialize(CMutableTransactionDefault, BCDataStream(txdata.val)),
             LAMBDA tx :
        IF ~tx.ok THEN Raise(tx.err, txdata.vds, [self EXCEPT !.tx = tx.val])
        ELSE IF can_read_more(tx.vds)
        THEN Raise("PSBTSerializationError", txdata.vds, [self EXCEPT !.tx = tx.val])
        ELSE Return(txdata.vds, [self EXCEPT !.tx = tx.val])))
    ELSE
        Bind(_deserialize_unknown(vds, key, self.unknown), LAMBDA r :
        IF ~r.ok THEN Raise(r.err, r.vds, self)
        ELSE Return(r.vds, [self EXCEPT !.unknown = r.val]))

\* The global map's loop without the check that the transaction's value
\* was read to its end.
PSBT_global_entry_trailing_bytes(self, vds, key) ==
    IF key[1] = PSBT_GLOBAL_UNSIGNED_TX THEN
        IF Len(key) # 1 THEN Raise("PSBTSerializationError", vds, self)
        ELSE IF self.tx # None THEN Raise("PSBTSerializationError", vds, self)
        ELSE Bind(read_bytes(vds), LAMBDA txdata :
        IF ~txdata.ok THEN Raise(txdata.err, vds, self)
        ELSE Bind(CMutableTransaction_deserialize(CMutableTransactionDefault, BCDataStream(txdata.val)),
             LAMBDA tx :
        IF ~tx.ok THEN Raise(tx.err, txdata.vds, [self EXCEPT !.tx = tx.val])
        ELSE IF \E i \in 1..Len(tx.val.vin) : Len(tx.val.vin[i].script_sig) # 0
        THEN Raise("PSBTSerializationError", txdata.vds, [self EXCEPT !.tx = tx.val])
        ELSE Return(txdata.vds, [self EXCEPT !.tx = tx.val])))
    ELSE
        Bind(_deserialize_unknown(vds, key, self.unknown), LAMBDA r :
        IF ~r.ok THEN Raise(r.err, r.vds, self)
        ELSE Return(r.vds, [self EXCEPT !.unknown = r.val]))

\* One pass of the global map's loop for a non-empty key.
PSBT_global_entry(self, vds, key) ==
    IF key[1] = PSBT_GLOBAL_UNSIGNED_TX THEN
        IF Len(key) # 1 THEN Raise("PSBTSerializationError", vds, self)
        ELSE IF self.tx # None THEN Raise("PSBTSerializationError", vds, self)
        ELSE Bind(read_bytes(vds), LAMBDA txdata :
        IF ~txdata.ok THEN Raise(txdata.err, vds, self)
        ELSE Bind(CMutableTransaction_deserialize(CMutableTransactionDefault, BCDataStream(txdata.val)),
             LAMBDA tx :
        IF ~tx.ok THEN Raise(tx.err, txdata.vds, [self EXCEPT !.tx = tx.val])
        ELSE IF can_read_more(tx.vds)
        THEN Raise("PSBTSerializationError", txdata.vds, [self EXCEPT !.tx = tx.val])
        ELSE IF \E i \in 1..Len(tx.val.vin) : Len(tx.val.vin[i].script_sig) # 0
        THEN Raise("PSBTSerializationError", txdata.vds, [self EXCEPT !.tx = tx.val])
        ELSE Return(txdata.vds, [self EXCEPT !.tx = tx.val])))
    ELSE
        Bind(_deserialize_unknown(vds, key, self.unknown), LAMBDA r :
        IF ~r.ok THEN Raise(r.err, r.vds, self)
        ELSE Return(r.vds, [self EXCEPT !.unknown = r.val]))

RECURSIVE PSBT_global_loop(_, _)
PSBT_global_loop(self, vds) ==
    IF ~can_read_more(vds) THEN Return(vds, self)
    ELSE Bind(read_bytes(vds), LAMBDA key :
         IF ~key.ok THEN Raise(key.err, vds, self)
         ELSE IF Len(key.val) = 0 THEN Return(key.vds, self)
         ELSE Bind(PSBT_global_entry(self, key.vds, key.val), LAMBDA r :
              IF ~r.ok THEN r ELSE PSBT_global_loop(r.val, r.vds)))

RECURSIVE PSBT_read_inputs_until_end(_, _, _)
\* The loop over tx.vin ending without an error where the data ends.
PSBT_read_inputs_until_end(self, vds, count) ==
    IF count = 0 THEN Return(vds, self)
    ELSE IF ~can_read_more(vds) THEN Return(vds, self)
    ELSE Bind(PSBTInput_deserialize(PSBTInput_clear, vds), LAMBDA psbti :
         IF ~psbti.ok THEN Raise(psbti.err, psbti.vds, self)
         ELSE PSBT_read_inputs_until_end([self EXCEPT !.inputs = Append(@, psbti.val)], psbti.vds, count - 1))

RECURSIVE PSBT_read_inputs(_, _, _)
\* for i in range(len(self.tx.vin)): ...; count is what is left of the range
PSBT_read_inputs(self, vds, count) ==
    IF count = 0 THEN Return(vds, self)
    ELSE IF ~can_read_more(vds) THEN Raise("PSBTSerializationError", vds, self)
    ELSE Bind(PSBTInput_deserialize(PSBTInput_clear, vds), LAMBDA psbti :
         IF ~psbti.ok THEN Raise(psbti.err, psbti.vds, self)
         ELSE PSBT_read_inputs([self EXCEPT !.inputs = Append(@, psbti.val)], psbti.vds, count - 1))

RECURSIVE PSBT_read_outputs(_, _, _)
PSBT_read_outputs(self, vds, count) ==
    IF count = 0 THEN Return(vds, self)
    ELSE IF ~can_read_more(vds) THEN Raise("PSBTSerializationError", vds, self)
    ELSE Bind(PSBTOutput_deserialize(PSBTOutput_clear, vds), LAMBDA output :
         IF ~output.ok THEN Raise(output.err, output.vds, self)
         ELSE PSBT_read_outputs([self EXCEPT !.outputs = Append(@, output.val)], output.vds, count - 1))

\* PSBT.deserialize reading the magic bytes with strict=True.
PSBT_deserialize_strict_magic(self, src) ==
    Bind(read_bytes_n(BCDataStream(src), 5, TRUE), LAMBDA magic :
    IF ~magic.ok THEN Raise(magic.err, magic.vds, self)
    ELSE IF magic.val # PSBT_MAGIC_BYTES THEN Raise("PSBTMagicBytesError", magic.vds, self)
    ELSE Bind(PSBT_global_loop(PSBT_clear, magic.vds), LAMBDA global :
    IF ~global.ok THEN global
    ELSE IF global.val.tx = None THEN Raise("PSBTSerializationError", global.vds, global.val)
    ELSE Bind(PSBT_read_inputs(global.val, global.vds, Len(global.val.tx.vin)), LAMBDA ins :
    IF ~ins.ok THEN ins
    ELSE PSBT_read_outputs(ins.val, ins.vds, Len(ins.val.tx.vout)))))

\* PSBT.deserialize(src) for a src of bytes: [ok, err, val, vds], val the
\* receiver as the call leaves it and vds the stream where it stopped.
PSBT_deserialize(self, src) ==
    Bind(read_bytes_n(BCDataStream(src), 5, FALSE), LAMBDA magic :
    IF magic.val # PSBT_MAGIC_BYTES THEN Raise("PSBTMagicBytesError", magic.vds, self)
    ELSE Bind(PSBT_global_loop(PSBT_clear, magic.vds), LAMBDA global :
    IF ~global.ok THEN global
    ELSE IF global.val.tx = None THEN Raise("PSBTSerializationError", global.vds, global.val)
    ELSE Bind(PSBT_read_inputs(global.val, global.vds, Len(global.val.tx.vin)), LAMBDA ins :
    IF ~ins.ok THEN ins
    ELSE PSBT_read_outputs(ins.val, ins.vds, Len(ins.val.tx.vout)))))

\* PSBT.serialize without the comparisons of the counts: zip-like, it
\* writes the maps there are.
PSBT_serialize_unchecked_counts(self) ==
    IF self.tx = None
    THEN [ok |-> FALSE, err |-> "PSBTSerializationError", out |-> PSBT_MAGIC_BYTES]
    ELSE IF \E i \in 1..Len(self.tx.vin) : self.tx.vin[i].script_sig # <<>>
    THEN [ok |-> FALSE, err |-> "PSBTSerializationError", out |-> PSBT_MAGIC_BYTES]
    ELSE Bind(CMutableTransaction_serialize(self.tx), LAMBDA tx :
    IF ~tx.ok
    THEN [ok |-> FALSE, err |-> tx.err,
          out |-> PSBT_MAGIC_BYTES \o write_string(<<PSBT_GLOBAL_UNSIGNED_TX>>)]
    ELSE Bind(SerializeAll(PSBTInput_serialize, self.inputs,
                  PSBT_MAGIC_BYTES \o write_string(<<PSBT_GLOBAL_UNSIGNED_TX>>)
                  \o write_string(tx.out) \o _serialize_unknown(self.unknown)
                  \o write_string(PSBT_SEPARATOR)), LAMBDA ins :
    IF ~ins.ok THEN ins
    ELSE SerializeAll(PSBTOutput_serialize, self.outputs, ins.out)))

\* PSBT.serialize(vds): [ok, err, out], out what the call wrote to vds.
PSBT_serialize(self) ==
    IF self.tx = None
    THEN [ok |-> FALSE, err |-> "PSBTSerializationError", out |-> PSBT_MAGIC_BYTES]
    ELSE IF \E i \in 1..Len(self.tx.vin) : self.tx.vin[i].script_sig # <<>>
    THEN [ok |-> FALSE, err |-> "PSBTSerializationError", out |-> PSBT_MAGIC_BYTES]
    ELSE Bind(CMutableTransaction_serialize(self.tx), LAMBDA tx :
    IF ~tx.ok
    THEN [ok |-> FALSE, err |-> tx.err,
          out |-> PSBT_MAGIC_BYTES \o write_string(<<PSBT_GLOBAL_UNSIGNED_TX>>)]
    ELSE Bind(PSBT_MAGIC_BYTES \o write_string(<<PSBT_GLOBAL_UNSIGNED_TX>>)
              \o write_string(tx.out) \o _serialize_unknown(self.unknown)
              \o write_string(PSBT_SEPARATOR), LAMBDA global :
    IF Len(self.inputs) # Len(self.tx.vin)
    THEN [ok |-> FALSE, err |-> "PSBTSerializationError", out |-> global]
    ELSE Bind(SerializeAll(PSBTInput_serialize, self.inputs, global), LAMBDA ins :
    IF ~ins.ok THEN ins
    ELSE IF Len(self.outputs) # Len(self.tx.vout)
    THEN [ok |-> FALSE, err |-> "PSBTSerializationError", out |-> ins.out]
    ELSE SerializeAll(PSBTOutput_serialize, self.outputs, ins.out))))

(***************************************************************************)
(* The state: a caller of the PSBT codec, as in test_basic_ser_deser.      *)
(*   prior   ptx before ptx.deserialize(src): a PSBT just constructed, or  *)
(*           one an earlier deserialize has filled                         *)
(*   src     the serialized data handed to ptx.deserialize                 *)
(*   built   what src was put together from: its magic, the maps begun     *)
(*           (each the list of its entries), whether the last map still    *)
(*           lacks its separator, and the number of separators             *)
(*   ptx     the PSBT that deserializes src                                *)
(*   res     how ptx.deserialize(src) ended, and the stream's cursor       *)
(*   mutation  what the caller changed in ptx after parsing                *)
(*   out, sres   what ptx.serialize wrote, and how it ended                *)
(*   ptx2, res2  the PSBT that deserializes out                            *)
(*   out2, sres2 what ptx2.serialize wrote                                 *)
(*   pc      the caller's position                                         *)
(* a caller of wrap_spk / unwrap_spk:                                      *)
(*   token_data, script_pub_key   the arguments of wrap_spk                *)
(*   wrapped_spk   the argument of unwrap_spk, cut bytes shorter than what *)
(*                 wrap_spk returned                                       *)
(*   unwrapped     what unwrap_spk returned                                *)
(*   tpc           the caller's position                                   *)
(* a caller of PSBTInput.deserialize and PSBTOutput.deserialize on the     *)
(* bytes of one map of src:                                                *)
(*   pin, pout     the receivers: before the calls the first input and the *)
(*                 first output of prior, if any                           *)
(*   ires, ores    how the calls ended                                     *)
(* a caller of the entities' serialize and deserialize:                    *)
(*   entity        the value serialized: its class and its fields          *)
(*   wire          what serialize wrote, and how it ended                  *)
(*   decoded       what a new object of the class holds after              *)
(*                 deserialize(wire), and how that ended                   *)
(*   epc           the caller's position                                   *)
(* and a ClientHandlerThread with the threads that use it:                 *)
(*   jobs          self.jobs: whether the attribute exists (del removes    *)
(*                 it) and the queue's items                               *)
(*   dead          self.dead                                               *)
(*   hlog          the calls made on the handler and what it did, in       *)
(*                 order: addjob, start, kill, run of a job, send_error,   *)
(*                 close of the connection (by run or by kill)             *)
(*   hpc, current  the handler thread's position in run, and its job       *)
(*   kpc, reason   the position of a thread in kill(reason)                *)
(*   before        the ids of the jobs in the queue when kill was called   *)
(*   added         the number of addjob calls so far                       *)
(* GenericServer (comms.py):                                               *)
(*   stopping, lock, spawned_clients, listensock   the server's fields     *)
(*   clients       the client handlers created so far                      *)
(*   client, sock  the local variables of run                              *)
(*   accepted      the number of connections accepted so far               *)
(*   rpc           the server thread's position in run                     *)
(*   stoppc, tokill, stop_reason   the position of a thread in             *)
(*                 stop(reason), what its loop has yet to visit, and its   *)
(*                 argument                                                *)
(***************************************************************************)
VARIABLES prior, src, built, ptx, res, mutation, out, sres, ptx2, res2, out2, sres2, pc,
          token_data, script_pub_key, wrapped_spk, cut, unwrapped, tpc,
          pin, pout, ires, ores,
          entity, wire, decoded, epc,
          jobs, dead, hlog, hpc, current, kpc, reason, before, added,
          stopping, lock, spawned_clients, clients, client, sock, listensock, accepted,
          rpc, stoppc, tokill, stop_reason

psbt_vars == <<prior, src, built, ptx, res, mutation, out, sres, ptx2, res2, out2, sres2, pc>>
token_vars == <<token_data, script_pub_key, wrapped_spk, cut, unwrapped, tpc>>
map_vars == <<pin, pout, ires, ores>>
entity_vars == <<entity, wire, decoded, epc>>
handler_vars == <<jobs, dead, hlog, hpc, current, kpc, reason, before, added>>
server_vars == <<stopping, lock, spawned_clients, clients, client, sock, listensock, accepted,
                 rpc, stoppc, tokill, stop_reason>>
vars == <<psbt_vars, token_vars, map_vars, entity_vars, handler_vars, server_vars>>

\* Bounds of the construction of src, and of the caller's changes.
MaxEntries == 3
MaxGlobalEntries == 3
MaxSeps == 3
MaxMutations == 1
MaxCut == 3

(***************************************************************************)
(* The serialized data the caller tries: byte strings written out in full. *)
(***************************************************************************)
Entry(key, val) == [key |-> key, val |-> val]
EntryBytes(e) == <<Len(e.key)>> \o e.key \o <<Len(e.val)>> \o e.val

RECURSIVE EntriesBytes(_)
EntriesBytes(es) ==
    IF es = <<>> THEN <<>> ELSE EntryBytes(Head(es)) \o EntriesBytes(Tail(es))

TxIn1 == Fill(32, 170) \o <<0, 0, 0, 0>> \o <<0>> \o <<254, 255, 255, 255>>
TxIn2 == Fill(32, 187) \o <<1, 0, 0, 0>> \o <<0>> \o <<255, 255, 255, 255>>
TxIn1Signed == Fill(32, 170) \o <<0, 0, 0, 0>> \o <<1, 81>> \o <<254, 255, 255, 255>>
TxOut1 == <<112, 170, 240, 8, 0, 0, 0, 0>> \o <<2, 118, 169>>

Tx00 == <<2, 0, 0, 0>> \o <<0>> \o <<0>> \o <<0, 0, 0, 0>>
Tx10 == <<2, 0, 0, 0>> \o <<1>> \o TxIn1 \o <<0>> \o <<0, 0, 0, 0>>
Tx11 == <<2, 0, 0, 0>> \o <<1>> \o TxIn1 \o <<1>> \o TxOut1 \o <<9, 0, 0, 0>>
Tx20 == <<1, 0, 0, 0>> \o <<2>> \o TxIn1 \o TxIn2 \o <<0>> \o <<0, 0, 0, 0>>
Tx10Signed == <<2, 0, 0, 0>> \o <<1>> \o TxIn1Signed \o <<0>> \o <<0, 0, 0, 0>>

UnsignedTxs == {Tx00, Tx10, Tx11, Tx20}
NumIns(tx) == IF tx = Tx00 THEN 0 ELSE IF tx = Tx20 THEN 2 ELSE 1
NumOuts(tx) == IF tx = Tx11 THEN 1 ELSE 0

GlobalEntries ==
    {Entry(<<PSBT_GLOBAL_UNSIGNED_TX>>, tx) : tx \in UnsignedTxs \cup {Tx10Signed}}
    \cup {Entry(<<15>>, <<1>>), Entry(<<15>>, <<2>>), Entry(<<15, 1>>, <<>>)}

PubkeyA == <<2>> \o Fill(32, 17)
PubkeyB == <<3>> \o Fill(32, 34)

UtxoPlain == <<128, 240, 250, 2, 0, 0, 0, 0>> \o <<1, 81>>
UtxoToken == <<232, 3, 0, 0, 0, 0, 0, 0>> \o <<38, 239>> \o Fill(32, 7) \o <<96, 1, 9>> \o <<81, 82>>

\* Every entry is well formed in an input map and in an output map.
MapEntries ==
    {Entry(<<0>>, UtxoPlain), Entry(<<0>>, UtxoToken),
     Entry(<<2>> \o PubkeyA, <<48, 1, 2, 3>>), Entry(<<2>> \o PubkeyB, <<48, 4, 5, 6>>),
     Entry(<<3>>, <<0, 0, 0, 0>>), Entry(<<3>>, <<65, 0, 0, 0>>),
     Entry(<<4>>, <<>>), Entry(<<4>>, <<82, 174>>),
     Entry(<<6>> \o PubkeyA, <<217, 12, 106, 79, 0, 0, 0, 128>>),
     Entry(<<6>> \o PubkeyB, <<217, 12, 106, 79>>),
     Entry(<<7>>, <<>>), Entry(<<7>>, <<1, 81>>),
     Entry(<<15>>, <<1>>), Entry(<<15>>, <<2>>), Entry(<<15, 1>>, <<>>)}

Magics == {PSBT_MAGIC_BYTES, <<112, 115, 98, 116, 254>>, <<112, 115, 98, 116>>, <<>>}

NumEntries(b) == IF b.maps = <<>> THEN 0
                 ELSE Len(b.maps[1]) + (IF Len(b.maps) > 1 THEN b.rest ELSE 0)

\* The global map as built holds an unsigned transaction.
GlobalTxs(b) == IF b.maps = <<>> THEN <<>>
                ELSE SelectSeq(b.maps[1], LAMBDA e : e.key = <<PSBT_GLOBAL_UNSIGNED_TX>>)

InGlobal(b) == b.seps = 0

AddEntry(b, e) ==
    IF b.open
    THEN [b EXCEPT !.maps[Len(b.maps)] = Append(@, e),
                   !.rest = IF Len(b.maps) > 1 THEN @ + 1 ELSE @]
    ELSE [b EXCEPT !.maps = Append(@, <<e>>), !.open = TRUE,
                   !.rest = IF Len(b.maps) >= 1 THEN @ + 1 ELSE @]

AddSep(b) ==
    IF b.open THEN [b EXCEPT !.open = FALSE, !.seps = @ + 1]
    ELSE [b EXCEPT !.maps = Append(@, <<>>), !.seps = @ + 1]

PSBTInit ==
    /\ prior = PSBT_clear
    /\ src \in Magics
    /\ built = [magic |-> src, maps |-> <<>>, open |-> FALSE, seps |-> 0, rest |-> 0]
    /\ ptx = PSBT_clear
    /\ res = [ok |-> TRUE, err |-> "", cursor |-> 0]
    /\ mutation = <<>>
    /\ out = <<>>
    /\ sres = [ok |-> TRUE, err |-> ""]
    /\ ptx2 = PSBT_clear
    /\ res2 = [ok |-> TRUE, err |-> "", cursor |-> 0]
    /\ out2 = <<>>
    /\ sres2 = [ok |-> TRUE, err |-> ""]
    /\ pc = "build"

PSBTIdle ==
    /\ prior = PSBT_clear
    /\ src = <<>>
    /\ built = [magic |-> <<>>, maps |-> <<>>, open |-> FALSE, seps |-> 0, rest |-> 0]
    /\ ptx = PSBT_clear
    /\ res = [ok |-> TRUE, err |-> "", cursor |-> 0]
    /\ mutation = <<>>
    /\ out = <<>>
    /\ sres = [ok |-> TRUE, err |-> ""]
    /\ ptx2 = PSBT_clear
    /\ res2 = [ok |-> TRUE, err |-> "", cursor |-> 0]
    /\ out2 = <<>>
    /\ sres2 = [ok |-> TRUE, err |-> ""]
    /\ pc = "idle"

TokenIdle ==
    /\ token_data = None
    /\ script_pub_key = <<>>
    /\ wrapped_spk = <<>>
    /\ cut = 0
    /\ unwrapped = None
    /\ tpc = "idle"

MapIdle ==
    /\ pin = PSBTInput_clear
    /\ pout = PSBTOutput_clear
    /\ ires = [ok |-> TRUE, err |-> ""]
    /\ ores = [ok |-> TRUE, err |-> ""]

EntityIdle ==
    /\ entity = None
    /\ wire = None
    /\ decoded = None
    /\ epc = "idle"

HandlerIdle ==
    /\ jobs = [exists |-> TRUE, queue |-> <<>>]
    /\ dead = FALSE
    /\ hlog = <<>>
    /\ hpc = "idle"
    /\ current = None
    /\ kpc = "idle"
    /\ reason = None
    /\ before = {}
    /\ added = 0

ServerIdle ==
    /\ stopping = FALSE
    /\ lock = "none"
    /\ spawned_clients = {}
    /\ clients = <<>>
    /\ client = 0
    /\ sock = "none"
    /\ listensock = "open"
    /\ accepted = 0
    /\ rpc = "idle"
    /\ stoppc = "idle"
    /\ tokill = {}
    /\ stop_reason = None

\* The caller appends an entry to the global map.
BuildGlobalEntry(e) ==
    /\ pc = "build"
    /\ InGlobal(built)
    /\ NumEntries(built) < MaxGlobalEntries
    /\ built.magic = PSBT_MAGIC_BYTES \/ built.maps = <<>>
    /\ src' = src \o EntryBytes(e)
    /\ built' = AddEntry(built, e)
    /\ UNCHANGED <<ptx, res, mutation, out, sres, ptx2, res2, out2, sres2, pc>>
    /\ UNCHANGED <<prior, token_vars, map_vars, entity_vars, handler_vars, server_vars>>

\* The caller appends an entry to an input or output map.
BuildMapEntry(e) ==
    /\ pc = "build"
    /\ ~InGlobal(built)
    /\ built.magic = PSBT_MAGIC_BYTES
    /\ GlobalTxs(built) # <<>>
    /\ NumEntries(built) < MaxEntries
    /\ src' = src \o EntryBytes(e)
    /\ built' = AddEntry(built, e)
    /\ UNCHANGED <<ptx, res, mutation, out, sres, ptx2, res2, out2, sres2, pc>>
    /\ UNCHANGED <<prior, token_vars, map_vars, entity_vars, handler_vars, server_vars>>

\* The caller appends a separator.
BuildSeparator ==
    /\ pc = "build"
    /\ built.seps < MaxSeps
    /\ built.magic = PSBT_MAGIC_BYTES
    /\ built.seps = 0 \/ GlobalTxs(built) # <<>>
    /\ src' = src \o <<0>>
    /\ built' = AddSep(built)
    /\ UNCHANGED <<ptx, res, mutation, out, sres, ptx2, res2, out2, sres2, pc>>
    /\ UNCHANGED <<prior, token_vars, map_vars, entity_vars, handler_vars, server_vars>>

\* ptx.deserialize(src)
Deserialize ==
    /\ pc = "build"
    /\ \E r \in {PSBT_deserialize(ptx, src)} :
          /\ ptx' = r.val
          /\ res' = [ok |-> r.ok, err |-> r.err, cursor |-> r.vds.read_cursor]
    /\ pc' = "parsed"
    /\ UNCHANGED <<src, built, mutation, out, sres, ptx2, res2, out2, sres2>>
    /\ UNCHANGED <<prior, token_vars, map_vars, entity_vars, handler_vars, server_vars>>

Mutate(name, new) ==
    /\ pc = "parsed"
    /\ res.ok
    /\ Len(mutation) < MaxMutations
    /\ ptx' = new
    /\ mutation' = Append(mutation, name)
    /\ UNCHANGED <<src, built, res, out, sres, ptx2, res2, out2, sres2, pc>>
    /\ UNCHANGED <<prior, token_vars, map_vars, entity_vars, handler_vars, server_vars>>

\* ptx.tx.vin[i].script_sig = b'\x51'
SetScriptSig ==
    /\ pc = "parsed" /\ res.ok /\ ptx.tx # None
    /\ \E i \in 1..Len(ptx.tx.vin) :
           Mutate("script_sig", [ptx EXCEPT !.tx.vin[i].script_sig = <<81>>])

\* ptx.tx = None
ClearTx ==
    /\ pc = "parsed"
    /\ Mutate("tx", [ptx EXCEPT !.tx = None])

\* ptx.inputs.append(PSBTInput()), ptx.inputs.pop() and the same of outputs
AppendInput ==
    /\ pc = "parsed"
    /\ Mutate("inputs", [ptx EXCEPT !.inputs = Append(@, PSBTInput_clear)])

PopInput ==
    /\ ptx.inputs # <<>>
    /\ Mutate("inputs", [ptx EXCEPT !.inputs = SubSeq(@, 1, Len(@) - 1)])

AppendOutput ==
    /\ pc = "parsed"
    /\ Mutate("outputs", [ptx EXCEPT !.outputs = Append(@, PSBTOutput_clear)])

PopOutput ==
    /\ ptx.outputs # <<>>
    /\ Mutate("outputs", [ptx EXCEPT !.outputs = SubSeq(@, 1, Len(@) - 1)])

\* ptx.inputs[i].final_script_sig = b'\x00\x51'
SetFinalScriptSig ==
    /\ pc = "parsed"
    /\ \E i \in 1..Len(ptx.inputs) :
        Mutate("final_script_sig", [ptx EXCEPT !.inputs[i].final_script_sig = <<0, 81>>])

\* ptx.serialize(vds) on an empty vds
Serialize ==
    /\ pc = "parsed"
    /\ \E w \in {PSBT_serialize(ptx)} :
          /\ out' = w.out
          /\ sres' = [ok |-> w.ok, err |-> w.err]
    /\ pc' = "serialized"
    /\ UNCHANGED <<src, built, ptx, res, mutation, ptx2, res2, out2, sres2>>
    /\ UNCHANGED <<prior, token_vars, map_vars, entity_vars, handler_vars, server_vars>>

\* ptx2.deserialize(ptx.serialize())
Deserialize2 ==
    /\ pc = "serialized"
    /\ res.ok /\ mutation = <<>> /\ sres.ok
    /\ \E r \in {PSBT_deserialize(ptx2, out)} :
          /\ ptx2' = r.val
          /\ res2' = [ok |-> r.ok, err |-> r.err, cursor |-> r.vds.read_cursor]
    /\ pc' = "parsed2"
    /\ UNCHANGED <<src, built, ptx, res, mutation, out, sres, out2, sres2>>
    /\ UNCHANGED <<prior, token_vars, map_vars, entity_vars, handler_vars, server_vars>>

\* ptx2.serialize()
Serialize2 ==
    /\ pc = "parsed2"
    /\ \E w \in {PSBT_serialize(ptx2)} :
          /\ out2' = w.out
          /\ sres2' = [ok |-> w.ok, err |-> w.err]
    /\ pc' = "done"
    /\ UNCHANGED <<src, built, ptx, res, mutation, out, sres, ptx2, res2>>
    /\ UNCHANGED <<prior, token_vars, map_vars, entity_vars, handler_vars, server_vars>>

Init == PSBTInit /\ TokenIdle /\ MapIdle /\ EntityIdle /\ HandlerIdle /\ ServerIdle

Next ==
    \/ \E e \in GlobalEntries : BuildGlobalEntry(e)
    \/ \E e \in MapEntries : BuildMapEntry(e)
    \/ BuildSeparator
    \/ Deserialize
    \/ SetScriptSig
    \/ ClearTx
    \/ AppendInput
    \/ PopInput
    \/ AppendOutput
    \/ PopOutput
    \/ SetFinalScriptSig
    \/ Serialize
    \/ Deserialize2
    \/ Serialize2

Spec == Init /\ [][Next]_vars

(***************************************************************************)
(* Deserializing into objects that hold earlier data, as the end of        *)
(* test_basic_ser_deser does: ptx is what an earlier ptx.deserialize left, *)
(* and the caller also hands the bytes of single maps of src to an input   *)
(* and an output taken from it.                                            *)
(***************************************************************************)
Tx11Earlier == <<3, 0, 0, 0>> \o <<1>> \o TxIn2 \o <<1>> \o TxOut1 \o <<7, 0, 0, 0>>

\* Data that an earlier deserialize accepted: a global map, an input map
\* and an output map with every field set.
EarlierAccepted ==
    PSBT_MAGIC_BYTES
    \o EntriesBytes(<<Entry(<<PSBT_GLOBAL_UNSIGNED_TX>>, Tx11Earlier), Entry(<<15>>, <<7>>)>>) \o <<0>>
    \o EntriesBytes(<<Entry(<<0>>, UtxoPlain), Entry(<<2>> \o PubkeyB, <<48, 7>>),
                      Entry(<<3>>, <<65, 0, 0, 0>>), Entry(<<4>>, <<82>>),
                      Entry(<<6>> \o PubkeyB, <<217, 12, 106, 79>>), Entry(<<15>>, <<8>>)>>) \o <<0>>
    \o EntriesBytes(<<Entry(<<0>>, <<82>>), Entry(<<2>> \o PubkeyA, <<217, 12, 106, 79>>),
                      Entry(<<15>>, <<9>>)>>) \o <<0>>

\* Data that an earlier deserialize rejected at its second entry of the
\* input map, a sighash type of five bytes.
EarlierRejected ==
    PSBT_MAGIC_BYTES
    \o EntriesBytes(<<Entry(<<15>>, <<7>>), Entry(<<PSBT_GLOBAL_UNSIGNED_TX>>, Tx11Earlier)>>) \o <<0>>
    \o EntriesBytes(<<Entry(<<7>>, <<1, 81>>), Entry(<<3>>, <<65, 0, 0, 0, 0>>)>>) \o <<0>>

Priors == {PSBT_deserialize(PSBT_clear, s).val : s \in {EarlierAccepted, EarlierRejected}}

\* The bytes of the m-th map of the data.
MapBytes(b, m) ==
    EntriesBytes(b.maps[m]) \o (IF m = Len(b.maps) /\ b.open THEN <<>> ELSE <<0>>)

ReuseInit ==
    /\ prior \in Priors
    /\ src \in Magics
    /\ built = [magic |-> src, maps |-> <<>>, open |-> FALSE, seps |-> 0, rest |-> 0]
    /\ ptx = prior
    /\ res = [ok |-> TRUE, err |-> "", cursor |-> 0]
    /\ mutation = <<>>
    /\ out = <<>>
    /\ sres = [ok |-> TRUE, err |-> ""]
    /\ ptx2 = PSBT_clear
    /\ res2 = [ok |-> TRUE, err |-> "", cursor |-> 0]
    /\ out2 = <<>>
    /\ sres2 = [ok |-> TRUE, err |-> ""]
    /\ pc = "build"
    /\ pin = (IF prior.inputs = <<>> THEN PSBTInput_clear ELSE prior.inputs[1])
    /\ pout = (IF prior.outputs = <<>> THEN PSBTOutput_clear ELSE prior.outputs[1])
    /\ ires = [ok |-> TRUE, err |-> ""]
    /\ ores = [ok |-> TRUE, err |-> ""]
    /\ TokenIdle /\ EntityIdle /\ HandlerIdle /\ ServerIdle

\* pin.deserialize(vds), vds holding the first map after the global map
DeserializeInput ==
    /\ pc = "parsed"
    /\ Len(built.maps) >= 2
    /\ \E r \in {PSBTInput_deserialize(pin, BCDataStream(MapBytes(built, 2)))} :
          /\ pin' = r.val
          /\ ires' = [ok |-> r.ok, err |-> r.err]
    /\ pc' = "input_parsed"
    /\ UNCHANGED <<prior, src, built, ptx, res, mutation, out, sres, ptx2, res2, out2, sres2>>
    /\ UNCHANGED <<pout, ores, token_vars, entity_vars, handler_vars, server_vars>>

\* pout.deserialize(vds), vds holding the last map
DeserializeOutput ==
    /\ pc = "input_parsed"
    /\ \E r \in {PSBTOutput_deserialize(pout, BCDataStream(MapBytes(built, Len(built.maps))))} :
          /\ pout' = r.val
          /\ ores' = [ok |-> r.ok, err |-> r.err]
    /\ pc' = "output_parsed"
    /\ UNCHANGED <<prior, src, built, ptx, res, mutation, out, sres, ptx2, res2, out2, sres2>>
    /\ UNCHANGED <<pin, ires, token_vars, entity_vars, handler_vars, server_vars>>

ReuseNext ==
    \/ \E e \in GlobalEntries : BuildGlobalEntry(e)
    \/ \E e \in MapEntries : BuildMapEntry(e)
    \/ BuildSeparator
    \/ Deserialize
    \/ DeserializeInput
    \/ DeserializeOutput

ReuseSpec == ReuseInit /\ [][ReuseNext]_vars

(***************************************************************************)
(* Data whose keys and values are not as the fields require: a global map  *)
(* and one more map, handed whole to ptx.deserialize, and the second map   *)
(* alone to an input and to an output.                                     *)
(***************************************************************************)
Tx01 == <<2, 0, 0, 0>> \o <<0>> \o <<1>> \o TxOut1 \o <<0, 0, 0, 0>>

PubkeyUncompressed == <<4>> \o Fill(64, 17)

KeypathBytes == <<217, 12, 106, 79, 0, 0, 0, 128, 1, 0, 0, 0>>

\* Keys of the types that take a public key, of 1, 33, 34, 35 and 66
\* bytes; the second of 34 bytes holds no point.
PubkeyKeys(typ) ==
    {<<typ>>, <<typ>> \o Fill(32, 17), <<typ>> \o PubkeyA, <<typ, 5>> \o Fill(32, 17),
     <<typ>> \o PubkeyA \o <<0>>, <<typ>> \o PubkeyUncompressed}

FieldEntries ==
    \* keys of one byte, and the same with a second byte
    {Entry(k, UtxoPlain) : k \in {<<0>>, <<0, 1>>, <<0>> \o PubkeyA}}
    \cup {Entry(k, <<65, 0, 0, 0>>) : k \in {<<3>>, <<3, 0>>}}
    \cup {Entry(k, <<82, 174>>) : k \in {<<4>>, <<4, 9>>}}
    \cup {Entry(k, <<1, 81>>) : k \in {<<7>>, <<7, 9>>}}
    \cup {Entry(<<15>>, <<1>>), Entry(<<15, 1>>, <<>>)}
    \* keys with a public key
    \cup {Entry(k, SubSeq(KeypathBytes, 1, 8)) : k \in PubkeyKeys(2) \cup PubkeyKeys(6)}
    \* derivation values of 0, 3, 4, 5 and 12 bytes
    \cup {Entry(<<t>> \o PubkeyA, SubSeq(KeypathBytes, 1, n)) : t \in {2, 6}, n \in {0, 3, 4, 5, 12}}
    \* sighash values of 0, 3 and 5 bytes
    \cup {Entry(<<3>>, Fill(n, 1)) : n \in {0, 3, 5}}
    \* an output with token data, outputs with a byte too many and outputs cut short
    \cup {Entry(<<0>>, v) : v \in {UtxoToken, UtxoPlain \o <<0>>, UtxoToken \o <<81>>,
                                   SubSeq(UtxoPlain, 1, 9), SubSeq(UtxoPlain, 1, 7),
                                   SubSeq(UtxoToken, 1, 40), <<>>}}

FieldMaps ==
    {<<e>> : e \in FieldEntries}
    \cup {<<Entry(<<15>>, <<2>>), e>> : e \in FieldEntries}
    \cup {<<e, Entry(<<15>>, <<2>>)>> : e \in FieldEntries}

\* Global maps with a transaction of one input, and of one output
GoodGlobals == {<<Entry(<<PSBT_GLOBAL_UNSIGNED_TX>>, tx)>> : tx \in {Tx10, Tx01}}

\* Global maps whose transaction key has a second byte, and whose
\* transaction value has bytes too many or too few
BadGlobals ==
    {<<Entry(<<PSBT_GLOBAL_UNSIGNED_TX, 1>>, Tx10)>>,
     <<Entry(<<PSBT_GLOBAL_UNSIGNED_TX, 1>>, Tx10), Entry(<<PSBT_GLOBAL_UNSIGNED_TX>>, Tx10)>>,
     <<Entry(<<15>>, <<1>>), Entry(<<PSBT_GLOBAL_UNSIGNED_TX, 0>>, <<>>)>>}
    \cup {<<Entry(<<PSBT_GLOBAL_UNSIGNED_TX>>, v)>> :
             v \in {Tx10 \o <<0>>, Tx11 \o <<0, 0>>, Tx00 \o <<1>>, <<>>,
                    SubSeq(Tx10, 1, Len(Tx10) - 1), SubSeq(Tx11, 1, 50), SubSeq(Tx00, 1, 4)}}

FieldInit ==
    /\ prior = PSBT_clear
    /\ \E g \in GoodGlobals \cup BadGlobals :
       \E m \in (IF g \in GoodGlobals THEN FieldMaps ELSE {<<Entry(<<15>>, <<1>>)>>}) :
       \E open \in BOOLEAN :
          /\ built = [magic |-> PSBT_MAGIC_BYTES, maps |-> <<g, m>>, open |-> open,
                      seps |-> IF open THEN 1 ELSE 2, rest |-> Len(m)]
          /\ src = PSBT_MAGIC_BYTES \o EntriesBytes(g) \o <<0>> \o EntriesBytes(m)
                   \o (IF open THEN <<>> ELSE <<0>>)
    /\ ptx = PSBT_clear
    /\ res = [ok |-> TRUE, err |-> "", cursor |-> 0]
    /\ mutation = <<>>
    /\ out = <<>>
    /\ sres = [ok |-> TRUE, err |-> ""]
    /\ ptx2 = PSBT_clear
    /\ res2 = [ok |-> TRUE, err |-> "", cursor |-> 0]
    /\ out2 = <<>>
    /\ sres2 = [ok |-> TRUE, err |-> ""]
    /\ pc = "build"
    /\ MapIdle /\ TokenIdle /\ EntityIdle /\ HandlerIdle /\ ServerIdle

FieldNext ==
    \/ Deserialize
    \/ DeserializeInput
    \/ DeserializeOutput

FieldSpec == FieldInit /\ [][FieldNext]_vars

(***************************************************************************)
(* Two PSBTs with the same entries in a different order: p parsed from     *)
(* the data, q parsed from the data with the entries of its maps           *)
(* reordered; both are serialized (specification OrderSpec).                *)
(***************************************************************************)
MaxOrdered == 3

OrderedGlobalEntries == {Entry(<<15>>, <<1>>), Entry(<<15, 1>>, <<>>)}

OrderedInputEntries ==
    {Entry(<<2>> \o PubkeyA, <<48, 1, 2, 3>>), Entry(<<2>> \o PubkeyB, <<48, 4, 5, 6>>),
     Entry(<<6>> \o PubkeyA, <<217, 12, 106, 79, 0, 0, 0, 128>>),
     Entry(<<6>> \o PubkeyB, <<217, 12, 106, 79>>),
     Entry(<<7>>, <<1, 81>>),
     Entry(<<15>>, <<1>>), Entry(<<15, 1>>, <<>>)}

OrderedOutputEntries ==
    {Entry(<<0>>, <<82, 174>>),
     Entry(<<2>> \o PubkeyA, <<217, 12, 106, 79, 0, 0, 0, 128>>),
     Entry(<<2>> \o PubkeyB, <<217, 12, 106, 79>>),
     Entry(<<15>>, <<1>>), Entry(<<15, 1>>, <<>>)}

\* The sequences of up to n different elements of S.
DistinctSeqs(S, n) ==
    {s \in UNION {[1..k -> S] : k \in 0..n} :
        \A i, j \in 1..Len(s) : i # j => s[i] # s[j]}

\* The sequences that hold the elements of s in any order.
Reorderings(s) == {[i \in 1..Len(s) |-> s[p[i]]] : p \in Permutations(1..Len(s))}

\* The bytes of a PSBT of one input and one output with these three maps.
OrderedBytes(g, mi, mo) ==
    PSBT_MAGIC_BYTES \o EntriesBytes(g) \o <<0>> \o EntriesBytes(mi) \o <<0>>
    \o EntriesBytes(mo) \o <<0>>

\* One of the three maps holds up to MaxOrdered entries.
OrderInit ==
    /\ prior = PSBT_clear
    /\ \E g \in DistinctSeqs(OrderedGlobalEntries, MaxOrdered),
          mi \in DistinctSeqs(OrderedInputEntries, MaxOrdered),
          mo \in DistinctSeqs(OrderedOutputEntries, MaxOrdered) :
          /\ (g = <<>> /\ mi = <<>>) \/ (g = <<>> /\ mo = <<>>) \/ (mi = <<>> /\ mo = <<>>)
          /\ built = [magic |-> PSBT_MAGIC_BYTES,
                      maps |-> <<<<Entry(<<PSBT_GLOBAL_UNSIGNED_TX>>, Tx11)>> \o g, mi, mo>>,
                      open |-> FALSE, seps |-> 3, rest |-> Len(mi) + Len(mo)]
          /\ src = OrderedBytes(<<Entry(<<PSBT_GLOBAL_UNSIGNED_TX>>, Tx11)>> \o g, mi, mo)
    /\ ptx = PSBT_clear
    /\ res = [ok |-> TRUE, err |-> "", cursor |-> 0]
    /\ mutation = <<>>
    /\ out = <<>>
    /\ sres = [ok |-> TRUE, err |-> ""]
    /\ ptx2 = PSBT_clear
    /\ res2 = [ok |-> TRUE, err |-> "", cursor |-> 0]
    /\ out2 = <<>>
    /\ sres2 = [ok |-> TRUE, err |-> ""]
    /\ pc = "build"
    /\ MapIdle /\ TokenIdle /\ EntityIdle /\ HandlerIdle /\ ServerIdle

\* ptx2.deserialize(data) for data that holds the entries of src, those of
\* each map in some order.
DeserializeReordered ==
    /\ pc = "serialized"
    /\ \E g \in Reorderings(built.maps[1]), mi \in Reorderings(built.maps[2]),
          mo \in Reorderings(built.maps[3]) :
       \E r \in {PSBT_deserialize(ptx2, OrderedBytes(g, mi, mo))} :
          /\ ptx2' = r.val
          /\ res2' = [ok |-> r.ok, err |-> r.err, cursor |-> r.vds.read_cursor]
    /\ pc' = "parsed2"
    /\ UNCHANGED <<src, built, ptx, res, mutation, out, sres, out2, sres2>>
    /\ UNCHANGED <<prior, token_vars, map_vars, entity_vars, handler_vars, server_vars>>

OrderNext ==
    \/ Deserialize
    \/ Serialize
    \/ DeserializeReordered
    \/ Serialize2

OrderSpec == OrderInit /\ [][OrderNext]_vars

(***************************************************************************)
(* A caller of wrap_spk and unwrap_spk: it wraps a script with token data  *)
(* built in memory, may drop bytes off the end of the result, and unwraps. *)
(***************************************************************************)
Bitfields == 0..255

\* 0, 1, 253, 2**63 - 1, 2**63 and 2**64
Amounts == {<<>>, <<1>>, <<253>>, Fill(7, 255) \o <<127>>, Fill(7, 0) \o <<128>>, Fill(8, 0) \o <<1>>}

Commitments == {<<>>, <<9>>}

TokenDatas ==
    {None} \cup {OutputData(Fill(32, 7), a, c, b) : a \in Amounts, c \in Commitments, b \in Bitfields}

Scripts == {<<>>, <<118, 169>>, <<PREFIX_BYTE, 81>>}

TokenInit ==
    /\ token_data \in TokenDatas
    /\ script_pub_key \in Scripts
    /\ wrapped_spk = <<>>
    /\ cut = 0
    /\ unwrapped = None
    /\ tpc = "start"

\* wrapped_spk = wrap_spk(token_data, script_pub_key)
Wrap ==
    /\ tpc = "start"
    /\ \E w \in {wrap_spk(token_data, script_pub_key)} :
          /\ wrapped_spk' = w.out
          /\ tpc' = IF w.ok THEN "wrapped" ELSE "wrap_failed"
    /\ UNCHANGED <<token_data, script_pub_key, cut, unwrapped>>
    /\ UNCHANGED <<psbt_vars, map_vars, entity_vars, handler_vars, server_vars>>

\* wrapped_spk = wrapped_spk[:-1]
Truncate ==
    /\ tpc = "wrapped"
    /\ cut < MaxCut
    /\ wrapped_spk # <<>>
    /\ wrapped_spk' = SubSeq(wrapped_spk, 1, Len(wrapped_spk) - 1)
    /\ cut' = cut + 1
    /\ UNCHANGED <<token_data, script_pub_key, unwrapped, tpc>>
    /\ UNCHANGED <<psbt_vars, map_vars, entity_vars, handler_vars, server_vars>>

\* unwrapped = unwrap_spk(wrapped_spk)
Unwrap ==
    /\ tpc = "wrapped"
    /\ unwrapped' = unwrap_spk(wrapped_spk)
    /\ tpc' = "unwrapped"
    /\ UNCHANGED <<token_data, script_pub_key, wrapped_spk, cut>>
    /\ UNCHANGED <<psbt_vars, map_vars, entity_vars, handler_vars, server_vars>>

TokenNext == Wrap \/ Truncate \/ Unwrap

TokenSpecInit == PSBTIdle /\ TokenInit /\ MapIdle /\ EntityIdle /\ HandlerIdle /\ ServerIdle

TokenSpec == TokenSpecInit /\ [][TokenNext]_vars

(***************************************************************************)
(* A caller of the entities of bitcoin_types.py: it serializes a value and *)
(* deserializes the bytes into a new object of the same class.             *)
(***************************************************************************)
Ids == {Fill(32, 0), Fill(32, 171)}

OutPoints == {COutPoint(t, n) : t \in Ids, n \in {<<>>, <<1>>, Fill(4, 255)}}

TxIns == {CTxIn(COutPoint(Fill(32, 171), <<1>>), s, q) :
              s \in {<<>>, <<81>>}, q \in {<<>>, SEQUENCE_FINAL}}

\* Token data that satisfies the rules of validity.
ValidTokenDatas ==
    {OutputData(Fill(32, 7), <<1>>, <<>>, 16),
     OutputData(Fill(32, 7), <<>>, <<>>, 32),
     OutputData(Fill(32, 7), <<253>>, <<9>>, 114)}

\* Locking scripts: empty, plain, the marker byte and one more byte, and
\* the marker byte, the serialization of the first token data above and
\* one more byte.
LockingScripts ==
    {<<>>, <<118, 169>>, <<PREFIX_BYTE, 81>>,
     <<PREFIX_BYTE>> \o Fill(32, 7) \o <<16, 1>> \o <<81>>}

\* 0, 1, -1 and 2**63 - 1
Values == {Zero, [neg |-> FALSE, mag |-> <<1>>], [neg |-> TRUE, mag |-> <<1>>],
           [neg |-> FALSE, mag |-> Fill(7, 255) \o <<127>>]}

TxOuts == {CTxOut(v, s, t) : v \in Values, s \in LockingScripts, t \in {None} \cup ValidTokenDatas}

Transactions ==
    {CMutableTransaction(i, o, v, l) :
        i \in {<<>>, <<CTxIn(COutPoint(Fill(32, 171), <<1>>), <<81>>, <<>>)>>,
               <<CTxInDefault, CTxIn(COutPoint(Fill(32, 171), <<1>>), <<>>, SEQUENCE_FINAL)>>},
        o \in {<<>>} \cup {<<t>> : t \in {u \in TxOuts : u.value = Zero}}
              \cup {<<CTxOutDefault, CTxOut(Zero, <<118, 169>>, OutputData(Fill(32, 7), <<1>>, <<>>, 16))>>},
        v \in {[neg |-> FALSE, mag |-> <<2>>], [neg |-> TRUE, mag |-> <<1>>]},
        l \in {<<>>, Fill(4, 255)}}

Entities ==
    {[cls |-> "uint256", val |-> uint256(d)] : d \in Ids}
    \cup {[cls |-> "COutPoint", val |-> p] : p \in OutPoints}
    \cup {[cls |-> "CTxIn", val |-> i] : i \in TxIns}
    \cup {[cls |-> "CTxOut", val |-> o] : o \in TxOuts}
    \cup {[cls |-> "CMutableTransaction", val |-> t] : t \in Transactions}

\* x.serialize(vds) on an empty vds, for x of class cls
Entity_serialize(cls, x) ==
    IF cls = "uint256" THEN uint256_serialize(x)
    ELSE IF cls = "COutPoint" THEN COutPoint_serialize(x)
    ELSE IF cls = "CTxIn" THEN CTxIn_serialize(x)
    ELSE IF cls = "CTxOut" THEN CTxOut_serialize(x)
    ELSE CMutableTransaction_serialize(x)

\* cls().deserialize(vds)
Entity_deserialize(cls, vds) ==
    IF cls = "uint256" THEN uint256_deserialize(uint256(Fill(32, 0)), vds)
    ELSE IF cls = "COutPoint" THEN COutPoint_deserialize(COutPointDefault, vds)
    ELSE IF cls = "CTxIn" THEN CTxIn_deserialize(CTxInDefault, vds)
    ELSE IF cls = "CTxOut" THEN CTxOut_deserialize(CTxOutDefault, vds)
    ELSE CMutableTransaction_deserialize(CMutableTransactionDefault, vds)

EntityInit ==
    /\ entity \in Entities
    /\ wire = None
    /\ decoded = None
    /\ epc = "start"

SerializeEntity ==
    /\ epc = "start"
    /\ wire' = Entity_serialize(entity.cls, entity.val)
    /\ epc' = "serialized"
    /\ UNCHANGED <<entity, decoded>>
    /\ UNCHANGED <<psbt_vars, token_vars, map_vars, handler_vars, server_vars>>

DeserializeEntity ==
    /\ epc = "serialized"
    /\ wire.ok
    /\ \E r \in {Entity_deserialize(entity.cls, BCDataStream(wire.out))} :
          decoded' = [ok |-> r.ok, err |-> r.err, val |-> r.val,
                      rest |-> Len(wire.out) - r.vds.read_cursor]
    /\ epc' = "deserialized"
    /\ UNCHANGED <<entity, wire>>
    /\ UNCHANGED <<psbt_vars, token_vars, map_vars, handler_vars, server_vars>>

EntityNext == SerializeEntity \/ DeserializeEntity

EntitySpecInit == PSBTIdle /\ TokenIdle /\ MapIdle /\ EntityInit /\ HandlerIdle /\ ServerIdle

EntitySpec == EntitySpecInit /\ [][EntityNext]_vars

(***************************************************************************)
(* A caller of unwrap_spk and wrap_spk on locking scripts as they come off *)
(* the wire: it unwraps the bytes, may drop bytes off their end first, and *)
(* wraps what unwrap_spk returned; wire is what wrap_spk returned.         *)
(***************************************************************************)
\* Scripts off the wire: without the marker byte; the marker byte alone
\* and with one more byte; the marker byte, an id, every bitfield and
\* bytes that are, as the bitfield has it, a commitment, an amount and
\* script; an amount and a commitment length in more bytes than needed; an
\* amount of 0 and of 2**63.
WireScripts ==
    {<<>>, <<118, 169>>, <<PREFIX_BYTE>>, <<PREFIX_BYTE, 81>>}
    \cup {<<PREFIX_BYTE>> \o Fill(32, 7) \o <<b, 1, 9, 253, 253, 0, 81>> : b \in Bitfields}
    \cup {<<PREFIX_BYTE>> \o Fill(32, 7) \o <<16>> \o a \o <<81>> :
              a \in {<<253, 1, 0>>, <<254, 1, 0, 0, 0>>, <<0>>, <<255>> \o Fill(7, 0) \o <<128>>,
                     <<255>> \o Fill(7, 255) \o <<127>>}}
    \cup {<<PREFIX_BYTE>> \o Fill(32, 7) \o <<96, 253, 1, 0, 9>>,
          <<PREFIX_BYTE>> \o Fill(32, 7) \o <<96, 0>>}

WireInit ==
    /\ token_data = None
    /\ script_pub_key = <<>>
    /\ wrapped_spk \in WireScripts
    /\ cut = 0
    /\ unwrapped = None
    /\ tpc = "wrapped"
    /\ entity = None
    /\ wire = None
    /\ decoded = None
    /\ epc = "idle"

\* wrap_spk(*unwrap_spk(wrapped_spk))
Rewrap ==
    /\ tpc = "unwrapped"
    /\ unwrapped.err = ""
    /\ wire' = wrap_spk(unwrapped.token_data, unwrapped.spk)
    /\ tpc' = "rewrapped"
    /\ UNCHANGED <<token_data, script_pub_key, wrapped_spk, cut, unwrapped>>
    /\ UNCHANGED <<entity, decoded, epc>>
    /\ UNCHANGED <<psbt_vars, map_vars, handler_vars, server_vars>>

WireNext == Truncate \/ Unwrap \/ Rewrap

WireSpecInit == PSBTIdle /\ WireInit /\ MapIdle /\ HandlerIdle /\ ServerIdle

WireSpec == WireSpecInit /\ [][WireNext]_vars

(***************************************************************************)
(* Objects and references: a caller holds an identifier object t and       *)
(* builds two outpoints a and b; heap[r] is the TxId object that the       *)
(* reference r points to (specification AliasSpec).                        *)
(***************************************************************************)
\* What a caller passes as txid: a TxId object it holds, bytes, or None
TxIdArgs(heap) ==
    {[kind |-> "object", ref |-> r] : r \in 1..Len(heap)}
    \cup {[kind |-> "bytes", data |-> heap[r].data] : r \in 1..Len(heap)}
    \cup {[kind |-> "None"]}

\* COutPoint(txid, n): [heap, self], self.txid a reference into heap. A
\* TxId object is stored as it is, bytes and None make a new one.
COutPoint_init(heap, txid, n) ==
    IF txid.kind = "None"
    THEN [heap |-> Append(heap, uint256(Fill(32, 0))), self |-> COutPoint(Len(heap) + 1, n)]
    ELSE IF txid.kind = "bytes"
    THEN [heap |-> Append(heap, uint256(txid.data)), self |-> COutPoint(Len(heap) + 1, n)]
    ELSE [heap |-> heap, self |-> COutPoint(txid.ref, n)]

\* uint256.deserialize on the object that ref points to: [ok, err, heap]
TxId_deserialize(heap, ref, vds) ==
    Bind(uint256_deserialize(heap[ref], vds), LAMBDA r :
    [ok |-> r.ok, err |-> r.err, heap |-> [heap EXCEPT ![ref] = r.val], vds |-> r.vds])

\* COutPoint.deserialize: self.txid.deserialize(vds) changes the object
\* that self.txid points to, then self.n is assigned.
COutPoint_deserialize_object(heap, self, vds) ==
    Bind(TxId_deserialize(heap, self.txid, vds), LAMBDA rt :
    IF ~rt.ok THEN [ok |-> FALSE, err |-> rt.err, heap |-> rt.heap, self |-> self]
    ELSE Bind(read_uint32(rt.vds), LAMBDA rn :
         IF ~rn.ok THEN [ok |-> FALSE, err |-> rn.err, heap |-> rt.heap, self |-> self]
         ELSE [ok |-> TRUE, err |-> "", heap |-> rt.heap, self |-> [self EXCEPT !.n = rn.val]]))

\* The value that an outpoint compares equal to (COutPoint.__eq__)
OutPointValue(heap, p) == COutPoint(heap[p.txid].data, p.n)

\* The values of t, a and b
Snapshot(e) == [t |-> e.heap[e.t].data, a |-> OutPointValue(e.heap, e.a),
                b |-> OutPointValue(e.heap, e.b)]

AliasWires ==
    {Fill(32, 204) \o <<5, 0, 0, 0>>, Fill(32, 171) \o <<1, 0, 0, 0>>,
     Fill(32, 204), Fill(20, 204), <<>>}

\* t = TxId(d); a = COutPoint(xa, na); b = COutPoint(xb, nb)
AliasInit ==
    /\ \E d \in Ids, na, nb \in {<<>>, <<1>>} :
       \E xa, xb \in TxIdArgs(<<uint256(d)>>) :
       \E ca \in {COutPoint_init(<<uint256(d)>>, xa, na)} :
       \E cb \in {COutPoint_init(ca.heap, xb, nb)} :
          entity = [heap |-> cb.heap, t |-> 1, a |-> ca.self, b |-> cb.self]
    /\ wire = None
    /\ decoded = None
    /\ epc = "constructed"

\* a.deserialize(vds)
DeserializeOutPoint ==
    /\ epc = "constructed"
    /\ \E bytes \in AliasWires :
       \E r \in {COutPoint_deserialize_object(entity.heap, entity.a, BCDataStream(bytes))} :
          /\ entity' = [entity EXCEPT !.heap = r.heap, !.a = r.self]
          /\ decoded' = [ok |-> r.ok, err |-> r.err, receiver |-> "a", before |-> Snapshot(entity)]
          /\ wire' = WriteOk(bytes)
    /\ epc' = "deserialized"
    /\ UNCHANGED <<psbt_vars, token_vars, map_vars, handler_vars, server_vars>>

\* t.deserialize(vds)
DeserializeTxId ==
    /\ epc = "constructed"
    /\ \E bytes \in AliasWires :
       \E r \in {TxId_deserialize(entity.heap, entity.t, BCDataStream(bytes))} :
          /\ entity' = [entity EXCEPT !.heap = r.heap]
          /\ decoded' = [ok |-> r.ok, err |-> r.err, receiver |-> "t", before |-> Snapshot(entity)]
          /\ wire' = WriteOk(bytes)
    /\ epc' = "deserialized"
    /\ UNCHANGED <<psbt_vars, token_vars, map_vars, handler_vars, server_vars>>

AliasNext == DeserializeOutPoint \/ DeserializeTxId

AliasSpecInit == PSBTIdle /\ TokenIdle /\ MapIdle /\ AliasInit /\ HandlerIdle /\ ServerIdle

AliasSpec == AliasSpecInit /\ [][AliasNext]_vars

(***************************************************************************)
(* plugins/fusion/comms.py: ClientHandlerThread.  The handler thread runs  *)
(* run; other threads call addjob and kill.  Each statement of run's       *)
(* finally block and of kill is a step of its own, so that the threads     *)
(* interleave as the interpreter lets them.                                *)
(***************************************************************************)
MaxJobs == 2

\* What a queued job does when it is run.
JobKinds == {"returns", "ValidationError", "FusionError", "Disconnect", "Exception"}

Job(id, kind) == [id |-> id, kind |-> kind, reason |-> None]

\* (self._killjob, (reason,))
KillJob(r) == [id |-> 0, kind |-> "_killjob", reason |-> r]

Reasons == {None, [text |-> "banned"]}

\* str(e) of the ValidationError a job raised
ErrorText(job) == [text |-> "ValidationError", job |-> job.id]

Ev(ev, x) == [ev |-> ev, x |-> x]

ByRun == [by |-> "run"]
ByKill == [by |-> "kill"]

\* ClientHandlerThread(connection), not yet started
HandlerInit ==
    /\ jobs = [exists |-> TRUE, queue |-> <<>>]
    /\ dead = FALSE
    /\ hlog = <<>>
    /\ hpc = "new"
    /\ current = None
    /\ kpc = "idle"
    /\ reason = None
    /\ before = {}
    /\ added = 0

\* addjob(job): put, or nothing once self.jobs is deleted
addjob(job) ==
    IF jobs.exists THEN [jobs EXCEPT !.queue = Append(@, job)] ELSE jobs

Addjob(kind) ==
    /\ added < MaxJobs
    /\ added' = added + 1
    /\ jobs' = addjob(Job(added + 1, kind))
    /\ hlog' = Append(hlog, Ev("addjob", Job(added + 1, kind)))
    /\ UNCHANGED <<dead, hpc, current, kpc, reason, before>>
    /\ UNCHANGED <<psbt_vars, token_vars, map_vars, entity_vars, server_vars>>

\* start(): the thread enters run
Start ==
    /\ hpc = "new"
    /\ hpc' = "get"
    /\ hlog' = Append(hlog, Ev("start", None))
    /\ UNCHANGED <<jobs, dead, current, kpc, reason, before, added>>
    /\ UNCHANGED <<psbt_vars, token_vars, map_vars, entity_vars, server_vars>>

\* job, args = self.jobs.get(timeout=60), and the call of the job begins
Get ==
    /\ hpc = "get"
    /\ jobs.queue # <<>>
    /\ current' = Head(jobs.queue)
    /\ jobs' = [jobs EXCEPT !.queue = Tail(@)]
    /\ hpc' = "job"
    /\ hlog' = Append(hlog, Ev("run", Head(jobs.queue)))
    /\ UNCHANGED <<dead, kpc, reason, before, added>>
    /\ UNCHANGED <<psbt_vars, token_vars, map_vars, entity_vars, server_vars>>

\* queue.Empty after the timeout: FusionError
Timeout ==
    /\ hpc = "get"
    /\ jobs.queue = <<>>
    /\ hpc' = "finally"
    /\ UNCHANGED <<jobs, dead, hlog, current, kpc, reason, before, added>>
    /\ UNCHANGED <<psbt_vars, token_vars, map_vars, entity_vars, server_vars>>

\* A handler of ValidationError that returns without send_error.
AfterJob_without_send_error(job) ==
    IF job.kind = "returns" THEN "get"
    ELSE "finally"

\* Where run goes on when job(self, *args) is over: the next turn of the
\* loop, the handler of ValidationError, or (past the other handlers) the
\* finally block.
AfterJob(job) ==
    IF job.kind = "returns" THEN "get"
    ELSE IF job.kind = "ValidationError" THEN "send_error"
    ELSE "finally"

\* _killjob(c, reason): send_error(reason) if there is a reason
_killjob(r) == IF r # None THEN <<Ev("send_error", r)>> ELSE <<>>

\* The job that was called returns or raises.
JobEnds ==
    /\ hpc = "job"
    /\ hpc' = AfterJob(current)
    /\ hlog' = hlog \o (IF current.kind = "_killjob" THEN _killjob(current.reason) ELSE <<>>)
    /\ UNCHANGED <<jobs, dead, current, kpc, reason, before, added>>
    /\ UNCHANGED <<psbt_vars, token_vars, map_vars, entity_vars, server_vars>>

\* except ValidationError as e: self.send_error(str(e)); return
SendError ==
    /\ hpc = "send_error"
    /\ hlog' = Append(hlog, Ev("send_error", ErrorText(current)))
    /\ hpc' = "finally"
    /\ UNCHANGED <<jobs, dead, current, kpc, reason, before, added>>
    /\ UNCHANGED <<psbt_vars, token_vars, map_vars, entity_vars, server_vars>>

\* finally: self.dead = True
FinallyDead ==
    /\ hpc = "finally"
    /\ dead' = TRUE
    /\ hpc' = "del"
    /\ UNCHANGED <<jobs, hlog, current, kpc, reason, before, added>>
    /\ UNCHANGED <<psbt_vars, token_vars, map_vars, entity_vars, server_vars>>

\* del self.jobs
FinallyDel ==
    /\ hpc = "del"
    /\ jobs' = [exists |-> FALSE, queue |-> <<>>]
    /\ hpc' = "close"
    /\ UNCHANGED <<dead, hlog, current, kpc, reason, before, added>>
    /\ UNCHANGED <<psbt_vars, token_vars, map_vars, entity_vars, server_vars>>

\* self.connection.close(), and run is over
FinallyClose ==
    /\ hpc = "close"
    /\ hlog' = Append(hlog, Ev("close", ByRun))
    /\ hpc' = "done"
    /\ UNCHANGED <<jobs, dead, current, kpc, reason, before, added>>
    /\ UNCHANGED <<psbt_vars, token_vars, map_vars, entity_vars, server_vars>>

\* kill(reason): self.dead = True
Kill(r) ==
    /\ kpc = "idle"
    /\ reason' = r
    /\ dead' = TRUE
    /\ before' = {jobs.queue[i].id : i \in 1..Len(jobs.queue)}
    /\ hlog' = Append(hlog, Ev("kill", r))
    /\ kpc' = "drain"
    /\ UNCHANGED <<jobs, hpc, current, added>>
    /\ UNCHANGED <<psbt_vars, token_vars, map_vars, entity_vars, server_vars>>

\* One turn of kill's loop: self.jobs.get_nowait(), leaving the loop on
\* AttributeError or queue.Empty
KillDrain ==
    /\ kpc = "drain"
    /\ IF jobs.exists /\ jobs.queue # <<>>
       THEN /\ jobs' = [jobs EXCEPT !.queue = Tail(@)]
            /\ kpc' = "drain"
       ELSE /\ jobs' = jobs
            /\ kpc' = IF reason = None THEN "close" ELSE "addjob"
    /\ UNCHANGED <<dead, hlog, hpc, current, reason, before, added>>
    /\ UNCHANGED <<psbt_vars, token_vars, map_vars, entity_vars, server_vars>>

\* if reason is None: self.connection.close()
KillClose ==
    /\ kpc = "close"
    /\ hlog' = Append(hlog, Ev("close", ByKill))
    /\ kpc' = "addjob"
    /\ UNCHANGED <<jobs, dead, hpc, current, reason, before, added>>
    /\ UNCHANGED <<psbt_vars, token_vars, map_vars, entity_vars, server_vars>>

\* self.addjob(self._killjob, reason)
KillAddjob ==
    /\ kpc = "addjob"
    /\ jobs' = addjob(KillJob(reason))
    /\ kpc' = "done"
    /\ UNCHANGED <<dead, hlog, hpc, current, reason, before, added>>
    /\ UNCHANGED <<psbt_vars, token_vars, map_vars, entity_vars, server_vars>>

\* The steps of the handler thread
run ==
    \/ Get
    \/ Timeout
    \/ JobEnds
    \/ SendError
    \/ FinallyDead
    \/ FinallyDel
    \/ FinallyClose

\* The steps of the thread in kill
kill ==
    \/ KillDrain
    \/ KillClose
    \/ KillAddjob

HandlerNext ==
    \/ \E k \in JobKinds : Addjob(k)
    \/ Start
    \/ \E r \in Reasons : Kill(r)
    \/ run
    \/ kill

HandlerSpecInit == PSBTIdle /\ TokenIdle /\ MapIdle /\ EntityIdle /\ HandlerInit /\ ServerIdle

HandlerSpec == HandlerSpecInit /\ [][HandlerNext]_vars

\* A started thread and a thread inside kill keep being scheduled.
HandlerFairSpec == HandlerSpec /\ WF_vars(run) /\ WF_vars(kill)

(***************************************************************************)
(* comms.py: GenericServer. The server thread is in run, another thread    *)
(* calls stop(reason) once, and the client handlers end when they do       *)
(* (specification ServerSpec). A client handler is                         *)
(* [state, killed]: state is "created", "started" or "ended" (its thread   *)
(* has finished), killed is None or the reason kill was called with.       *)
(***************************************************************************)
MaxClients == 2

Started == {c \in 1..Len(clients) : clients[c].state # "created"}

ServerInit ==
    /\ stopping = FALSE
    /\ lock = "none"
    /\ spawned_clients = {}
    /\ clients = <<>>
    /\ client = 0
    /\ sock = "none"
    /\ listensock = "open"
    /\ accepted = 0
    /\ rpc = "loop"
    /\ stoppc = "idle"
    /\ tokill = {}
    /\ stop_reason = None

OnlyServer == UNCHANGED <<psbt_vars, token_vars, map_vars, entity_vars, handler_vars>>

\* while True: if self.stopping: break
RunLoop ==
    /\ rpc = "loop"
    /\ rpc' = IF stopping THEN "close" ELSE "accept"
    /\ UNCHANGED <<stopping, lock, spawned_clients, clients, client, sock, listensock, accepted,
                   stoppc, tokill, stop_reason>>
    /\ OnlyServer

\* sock, src = self.listensock.accept(); except socket.timeout: continue
RunAccept ==
    /\ rpc = "accept"
    /\ \/ /\ rpc' = "loop"
          /\ UNCHANGED <<sock, accepted>>
       \/ /\ accepted < MaxClients
          /\ accepted' = accepted + 1
          /\ sock' = "open"
          /\ rpc' = "lock"
    /\ UNCHANGED <<stopping, lock, spawned_clients, clients, client, listensock,
                   stoppc, tokill, stop_reason>>
    /\ OnlyServer

\* with self.lock:
RunLock ==
    /\ rpc = "lock"
    /\ lock = "none"
    /\ lock' = "run"
    /\ rpc' = "check"
    /\ UNCHANGED <<stopping, spawned_clients, clients, client, sock, listensock, accepted,
                   stoppc, tokill, stop_reason>>
    /\ OnlyServer

\* The block under the lock going on to the new client whatever stopping is.
RunCheck_without_check ==
    /\ rpc = "check"
    /\ rpc' = "new"
    /\ UNCHANGED <<stopping, lock, spawned_clients, clients, client, sock, listensock, accepted,
                   stoppc, tokill, stop_reason>>
    /\ OnlyServer

\* if self.stopping: sock.close(); break
RunCheck ==
    /\ rpc = "check"
    /\ IF stopping
       THEN sock' = "closed" /\ lock' = "none" /\ rpc' = "close"
       ELSE rpc' = "new" /\ UNCHANGED <<sock, lock>>
    /\ UNCHANGED <<stopping, spawned_clients, clients, client, listensock, accepted,
                   stoppc, tokill, stop_reason>>
    /\ OnlyServer

\* sock.getpeername(), Connection(sock, ...), self.clientclass(connection);
\* if one of them raises, run's except clause ends the loop.
RunNewClient ==
    /\ rpc = "new"
    /\ \/ /\ clients' = Append(clients, [state |-> "created", killed |-> None])
          /\ client' = Len(clients) + 1
          /\ sock' = "connection"
          /\ rpc' = "add"
          /\ UNCHANGED lock
       \/ /\ lock' = "none"
          /\ rpc' = "close"
          /\ UNCHANGED <<clients, client, sock>>
    /\ UNCHANGED <<stopping, spawned_clients, listensock, accepted, stoppc, tokill, stop_reason>>
    /\ OnlyServer

\* self.spawned_clients.add(client); client.addjob(self.new_client_job)
RunAdd ==
    /\ rpc = "add"
    /\ spawned_clients' = spawned_clients \cup {client}
    /\ rpc' = "start"
    /\ UNCHANGED <<stopping, lock, clients, client, sock, listensock, accepted,
                   stoppc, tokill, stop_reason>>
    /\ OnlyServer

\* client.start(), and the end of the with block
RunStart ==
    /\ rpc = "start"
    /\ clients' = [clients EXCEPT ![client].state = "started"]
    /\ lock' = "none"
    /\ rpc' = "loop"
    /\ UNCHANGED <<stopping, spawned_clients, client, sock, listensock, accepted,
                   stoppc, tokill, stop_reason>>
    /\ OnlyServer

\* self.listensock.close(), and the end of run
RunClose ==
    /\ rpc = "close"
    /\ listensock' = "closed"
    /\ client' = 0
    /\ rpc' = "done"
    /\ UNCHANGED <<stopping, lock, spawned_clients, clients, sock, accepted,
                   stoppc, tokill, stop_reason>>
    /\ OnlyServer

GenericServer_run ==
    \/ RunLoop \/ RunAccept \/ RunLock \/ RunCheck \/ RunNewClient \/ RunAdd \/ RunStart
    \/ RunClose

\* A thread calls stop(reason).
StopCall ==
    /\ stoppc = "idle"
    /\ stop_reason' \in Reasons
    /\ stoppc' = "lock"
    /\ UNCHANGED <<stopping, lock, spawned_clients, clients, client, sock, listensock, accepted,
                   rpc, tokill>>
    /\ OnlyServer

\* with self.lock:
StopLock ==
    /\ stoppc = "lock"
    /\ lock = "none"
    /\ lock' = "stop"
    /\ stoppc' = "set"
    /\ UNCHANGED <<stopping, spawned_clients, clients, client, sock, listensock, accepted,
                   rpc, tokill, stop_reason>>
    /\ OnlyServer

\* self.stopping = True; for c in self.spawned_clients:
StopSet ==
    /\ stoppc = "set"
    /\ stopping' = TRUE
    /\ tokill' = spawned_clients
    /\ stoppc' = "kill"
    /\ UNCHANGED <<lock, spawned_clients, clients, client, sock, listensock, accepted,
                   rpc, stop_reason>>
    /\ OnlyServer

\* c.kill(reason = reason) for the next c that the set still holds; the end
\* of the loop and of the with block when there is none.
StopKill ==
    /\ stoppc = "kill"
    /\ IF tokill \cap spawned_clients = {}
       THEN /\ lock' = "none"
            /\ stoppc' = "returned"
            /\ tokill' = {}
            /\ UNCHANGED clients
       ELSE \E c \in tokill \cap spawned_clients :
            /\ clients' = [clients EXCEPT ![c].killed = [reason |-> stop_reason]]
            /\ tokill' = tokill \ {c}
            /\ UNCHANGED <<lock, stoppc>>
    /\ UNCHANGED <<stopping, spawned_clients, client, sock, listensock, accepted,
                   rpc, stop_reason>>
    /\ OnlyServer

GenericServer_stop == StopCall \/ StopLock \/ StopSet \/ StopKill

\* The thread of a client handler ends.
ClientEnds ==
    /\ \E c \in 1..Len(clients) :
          /\ clients[c].state = "started"
          /\ clients' = [clients EXCEPT ![c].state = "ended"]
    /\ UNCHANGED <<stopping, lock, spawned_clients, client, sock, listensock, accepted,
                   rpc, stoppc, tokill, stop_reason>>
    /\ OnlyServer

\* spawned_clients is a WeakSet: a handler whose thread has ended and that
\* run's local variable does not refer to may be collected, and is then
\* no longer in the set.
Collected ==
    /\ \E c \in spawned_clients :
          /\ clients[c].state = "ended"
          /\ client # c
          /\ spawned_clients' = spawned_clients \ {c}
    /\ UNCHANGED <<stopping, lock, clients, client, sock, listensock, accepted,
                   rpc, stoppc, tokill, stop_reason>>
    /\ OnlyServer

ServerNext == GenericServer_run \/ GenericServer_stop \/ ClientEnds \/ Collected

ServerSpecInit == PSBTIdle /\ TokenIdle /\ MapIdle /\ EntityIdle /\ HandlerIdle /\ ServerInit

ServerSpec == ServerSpecInit /\ [][ServerNext]_vars

\* The scheduler runs the server thread when it can take a step.
ServerFairSpec == ServerSpec /\ WF_vars(GenericServer_run)

(***************************************************************************)
(* Properties of the PSBT codec (specification Spec)                       *)
(***************************************************************************)
\* The unsigned transaction of the global map as built, and the kind of
\* the m-th map of the data: the maps after the global map are the input
\* maps, then the output maps, of that transaction.
BuiltTx(b) == GlobalTxs(b)[1].val

MapKind(b, m) ==
    IF m = 1 THEN "global"
    ELSE IF m <= 1 + NumIns(BuiltTx(b)) THEN "input"
    ELSE IF m <= 1 + NumIns(BuiltTx(b)) + NumOuts(BuiltTx(b)) THEN "output"
    ELSE "extra"

RecognizedKey(kind, key) ==
    \/ kind = "global" /\ key[1] = PSBT_GLOBAL_UNSIGNED_TX
    \/ kind = "input" /\ key[1] \in {PSBT_IN_UTXO, PSBT_IN_PARTIAL_SIG, PSBT_IN_SIGHASH,
                                      PSBT_IN_REDEEMSCRIPT, PSBT_IN_BIP32_DERIVATION,
                                      PSBT_IN_SCRIPTSIG}
    \/ kind = "output" /\ key[1] \in {PSBT_OUT_REDEEMSCRIPT, PSBT_OUT_BIP32_DERIVATION}

\* An input or output map of the data holds two entries with the same
\* recognized key.
HasDuplicateTypedKey(b) ==
    /\ b.magic = PSBT_MAGIC_BYTES
    /\ Len(GlobalTxs(b)) = 1
    /\ \E m \in 2..Len(b.maps) : \E i, j \in 1..Len(b.maps[m]) :
          /\ i < j
          /\ b.maps[m][i].key = b.maps[m][j].key
          /\ RecognizedKey(MapKind(b, m), b.maps[m][i].key)

\* A finalized input holds none of the fields that only an input still to
\* be signed serializes.
FinalizedHoldsNoSigningData(p) ==
    \A i \in 1..Len(p.inputs) :
        p.inputs[i].final_script_sig # <<>> =>
            /\ p.inputs[i].partial_sigs = <<>>
            /\ p.inputs[i].sighash_type = <<>>
            /\ p.inputs[i].redeem_script = <<>>
            /\ p.inputs[i].hd_keypaths = <<>>

\* C1 (as claimed): whenever deserialize accepts b and yields p,
\* deserializing serialize(p) succeeds and yields a PSBT equal to p, also
\* when an input of p holds a final script together with partial
\* signatures, a sighash type, a redeem script or HD keypaths.
C1_RoundTripOfEveryParsedPSBT ==
    /\ (pc = "serialized" /\ res.ok /\ mutation = <<>>) => sres.ok
    /\ pc \in {"parsed2", "done"} => (res2.ok /\ PSBT_eq(ptx2, ptx))

\* C1 (amended): whenever deserialize accepts b and yields p, serialize(p)
\* succeeds and deserializing it succeeds; the result equals p when no
\* finalized input of p holds partial signatures, a sighash type, a redeem
\* script or HD keypaths.
C1_RoundTripUnlessFinalizedWithSigningData ==
    /\ (pc = "serialized" /\ res.ok /\ mutation = <<>>) => sres.ok
    /\ pc \in {"parsed2", "done"} => res2.ok
    /\ (pc \in {"parsed2", "done"} /\ FinalizedHoldsNoSigningData(ptx)) => PSBT_eq(ptx2, ptx)

C1_Witness ==
    /\ pc = "parsed2"
    /\ \E i \in 1..Len(ptx.inputs) :
          /\ ptx.inputs[i].partial_sigs # <<>>
          /\ ptx.inputs[i].hd_keypaths # <<>>
    /\ PSBT_eq(ptx2, ptx)

\* C2: with c = serialize(deserialize(b)) for an accepted b, deserialize(c)
\* succeeds and serialize(deserialize(c)) is c, byte for byte.
C2_ReserializationIsIdempotent ==
    /\ pc \in {"parsed2", "done"} => res2.ok
    /\ pc = "done" => (sres2.ok /\ out2 = out)

C2_Witness ==
    /\ pc = "done"
    /\ out # src
    /\ out2 = out
    /\ \E i \in 1..Len(ptx2.inputs) : ptx2.inputs[i].unknown # <<>>

\* C3: when an input or output map holds two entries with the same
\* recognized key, deserialize fails with a PSBT serialization error,
\* whatever the two values are.
C3_DuplicateTypedKeysRejected ==
    (pc # "build" /\ HasDuplicateTypedKey(built)) =>
        (~res.ok /\ res.err = "PSBTSerializationError")

\* C4: deserialize fails when the number of maps encoded after the global
\* map differs from the number of inputs plus outputs of the unsigned
\* transaction, be there fewer maps or more.
C4_MapCountMismatchRejected ==
    (/\ pc # "build"
     /\ built.magic = PSBT_MAGIC_BYTES
     /\ Len(GlobalTxs(built)) = 1
     /\ built.seps >= 1
     /\ Len(built.maps) - 1 # NumIns(BuiltTx(built)) + NumOuts(BuiltTx(built)))
    => ~res.ok

\* C5: serialize fails with a PSBT serialization error whenever
\* len(inputs) differs from len(tx.vin) or len(outputs) from len(tx.vout):
\* it does not write maps cut or padded to the transaction's counts.
C5_SerializeRejectsCountMismatch ==
    (/\ pc = "serialized"
     /\ ptx.tx # None
     /\ \/ Len(ptx.inputs) # Len(ptx.tx.vin)
        \/ Len(ptx.outputs) # Len(ptx.tx.vout))
    => (~sres.ok /\ sres.err = "PSBTSerializationError")

C5_Witness ==
    /\ pc = "serialized"
    /\ mutation = <<"outputs">>
    /\ Len(ptx.inputs) = Len(ptx.tx.vin)
    /\ Len(ptx.outputs) # Len(ptx.tx.vout)
    /\ ~sres.ok

\* C6: an unsigned transaction with a non-empty scriptSig in an input is
\* rejected by deserialize, when the global map holds it, and by
\* serialize, when the caller set the script after parsing; serialize
\* fails too when no transaction is set; the scripts stay as they are.
C6_UnsignedTxConstraint ==
    /\ (/\ pc # "build"
        /\ built.magic = PSBT_MAGIC_BYTES
        /\ \E i \in 1..Len(GlobalTxs(built)) : GlobalTxs(built)[i].val = Tx10Signed)
       => (~res.ok /\ res.err = "PSBTSerializationError")
    /\ (pc = "parsed" /\ res.ok /\ mutation = <<>>)
       => \A i \in 1..Len(ptx.tx.vin) : ptx.tx.vin[i].script_sig = <<>>
    /\ (pc = "serialized" /\ ptx.tx = None)
       => (~sres.ok /\ sres.err = "PSBTSerializationError" /\ out = PSBT_MAGIC_BYTES)
    /\ (pc = "serialized" /\ mutation = <<"script_sig">>)
       => /\ ~sres.ok /\ sres.err = "PSBTSerializationError" /\ out = PSBT_MAGIC_BYTES
          /\ \E i \in 1..Len(ptx.tx.vin) : ptx.tx.vin[i].script_sig # <<>>

C6_Witness ==
    /\ pc = "serialized"
    /\ mutation = <<"script_sig">>
    /\ ~sres.ok

RECURSIVE WireKeys(_)
\* The keys of the entries of a serialized map, its separator the empty
\* key.
WireKeys(bytes) ==
    IF bytes = <<>> THEN <<>>
    ELSE IF bytes[1] = 0 THEN <<<<>>>> \o WireKeys(Tail(bytes))
    ELSE <<SubSeq(bytes, 2, 1 + bytes[1])>>
         \o WireKeys(SubSeq(bytes, 3 + bytes[1] + bytes[2 + bytes[1]], Len(bytes)))

FinalizedKeys(inp) ==
    (IF inp.utxo # None THEN <<<<PSBT_IN_UTXO>>>> ELSE <<>>)
    \o <<<<PSBT_IN_SCRIPTSIG>>>>
    \o [i \in 1..Len(inp.unknown) |-> inp.unknown[i][1]]
    \o <<PSBT_SEPARATOR>>

SerializesAsFinalized(inp, w) == w.ok /\ WireKeys(w.out) = FinalizedKeys(inp)

\* C7: an input whose final script is non-empty serializes as the UTXO
\* field (if a UTXO is set), the final script field, the unknown entries
\* and the separator, and as nothing else, whatever else it holds.
C7_FinalizationPrecedence ==
    pc = "parsed" =>
        \A i \in 1..Len(ptx.inputs) :
            ptx.inputs[i].final_script_sig # <<>> =>
                SerializesAsFinalized(ptx.inputs[i], PSBTInput_serialize(ptx.inputs[i]))

C7_Witness ==
    /\ pc = "parsed"
    /\ \E i \in 1..Len(ptx.inputs) :
          /\ ptx.inputs[i].final_script_sig # <<>>
          /\ ptx.inputs[i].partial_sigs # <<>>

StartsWithMagic(s) == Len(s) >= 5 /\ SubSeq(s, 1, 5) = PSBT_MAGIC_BYTES

NoMarker(s) == s = <<>> \/ s[1] # PREFIX_BYTE

\* Token data as the wire can carry it.
WireValid(td) ==
    /\ Len(td.id) = 32
    /\ is_valid_bitfield(td)
    /\ has_commitment_length(td) <=> td.commitment # <<>>
    /\ has_amount(td) => (td.amount # <<>> /\ ~AmountTooLarge(td.amount))
    /\ ~has_amount(td) => td.amount = <<>>

\* C9 (as claimed): for any token data in memory, or none, and a script
\* that does not begin with the marker byte,
\* unwrap_spk(wrap_spk(token_data, script)) is (token_data, script).
C9_UnwrapInvertsWrapOfAnyTokenData ==
    (tpc = "unwrapped" /\ cut = 0 /\ NoMarker(script_pub_key)) =>
        unwrapped = [err |-> "", token_data |-> token_data, spk |-> script_pub_key]

\* C9 (amended): the same, for token data that is none or that has a
\* valid bitfield, a commitment that is non-empty exactly when the
\* commitment bit is set, and an amount in 1..2**63-1 when the amount bit
\* is set and 0 when it is not.
C9_UnwrapInvertsWrapOfValidTokenData ==
    (/\ tpc = "unwrapped" /\ cut = 0 /\ NoMarker(script_pub_key)
     /\ token_data # None => WireValid(token_data))
    => unwrapped = [err |-> "", token_data |-> token_data, spk |-> script_pub_key]

C9_Witness ==
    /\ tpc = "unwrapped" /\ cut = 0
    /\ token_data # None
    /\ WireValid(token_data)
    /\ has_commitment_length(token_data) /\ has_amount(token_data)
    /\ script_pub_key # <<>> /\ NoMarker(script_pub_key)
    /\ unwrapped.token_data = token_data

\* What unwrap_spk is given begins with the marker byte and then holds
\* token data that is cut short, or that breaks a rule of validity the
\* wire shows.
TruncatedOrInvalid ==
    /\ token_data # None
    /\ \/ cut > Len(script_pub_key)
       \/ ~is_valid_bitfield(token_data)
       \/ has_amount(token_data) /\ token_data.amount = <<>>
       \/ has_amount(token_data) /\ AmountTooLarge(token_data.amount)
       \/ has_commitment_length(token_data) /\ token_data.commitment = <<>>

\* C10: unwrap_spk reports no error; for bytes that are empty or do not
\* begin with the marker byte, and for bytes that begin with it and go
\* on with token data cut short or invalid, it returns (none, the bytes).
C10_UnwrapNeverFails ==
    tpc = "unwrapped" =>
        /\ unwrapped.err = ""
        /\ (NoMarker(wrapped_spk) \/ TruncatedOrInvalid) =>
               (unwrapped.token_data = None /\ unwrapped.spk = wrapped_spk)

C10_Witness ==
    /\ tpc = "unwrapped"
    /\ token_data # None
    /\ cut > Len(script_pub_key)
    /\ wrapped_spk # <<>> /\ wrapped_spk[1] = PREFIX_BYTE
    /\ unwrapped = [err |-> "", token_data |-> None, spk |-> wrapped_spk]
(***************************************************************************)
(* Unknown entries (specification Spec)                                    *)
(***************************************************************************)
\* The entries of a map that its kind of map does not recognize, as
\* <<key, value>> pairs in the order of the map.
UnknownPairs(unknown) == [i \in 1..Len(unknown) |-> <<unknown[i].key, unknown[i].val>>]

UnknownOf(kind, entries) ==
    UnknownPairs(SelectSeq(entries, LAMBDA e : ~RecognizedKey(kind, e.key)))

RECURSIVE StrippedMaps(_, _)
\* The bytes of the first m maps of the data as built, without the
\* entries their maps do not recognize.
StrippedMaps(b, m) ==
    IF m = 0 THEN <<>>
    ELSE StrippedMaps(b, m - 1)
         \o EntriesBytes(SelectSeq(b.maps[m], LAMBDA e : RecognizedKey(MapKind(b, m), e.key)))
         \o (IF m = Len(b.maps) /\ b.open THEN <<>> ELSE <<0>>)

WithoutUnknown(b) == b.magic \o StrippedMaps(b, Len(b.maps))

DistinctUnknownKeys(b) ==
    \A m \in 1..Len(b.maps) : \A i, j \in 1..Len(b.maps[m]) :
        (i < j /\ b.maps[m][i].key = b.maps[m][j].key)
            => RecognizedKey(MapKind(b, m), b.maps[m][i].key)

\* The unknown entries a PSBT holds, map by map: global, inputs, outputs.
StoredUnknown(p) ==
    <<p.unknown>>
    \o [i \in 1..Len(p.inputs) |-> p.inputs[i].unknown]
    \o [i \in 1..Len(p.outputs) |-> p.outputs[i].unknown]

RECURSIVE WireMaps(_, _, _)
\* The maps of serialized data after the magic bytes, each the list of
\* its entries.
WireMaps(bytes, cur, maps) ==
    IF bytes = <<>> THEN maps
    ELSE IF bytes[1] = 0 THEN WireMaps(Tail(bytes), <<>>, Append(maps, cur))
    ELSE WireMaps(SubSeq(bytes, 3 + bytes[1] + bytes[2 + bytes[1]], Len(bytes)),
                  Append(cur, Entry(SubSeq(bytes, 2, 1 + bytes[1]),
                                    SubSeq(bytes, 3 + bytes[1], 2 + bytes[1] + bytes[2 + bytes[1]]))),
                  maps)

WireUnknown(b, bytes) ==
    [m \in 1..Len(WireMaps(SubSeq(bytes, 6, Len(bytes)), <<>>, <<>>)) |->
        UnknownOf(MapKind(b, m), WireMaps(SubSeq(bytes, 6, Len(bytes)), <<>>, <<>>)[m])]

\* C12: in the global map, an input map and an output map, entries whose
\* key the map does not recognize cause no failure (data accepted without
\* them is accepted with them, their keys distinct within a map), are
\* stored under their whole key with their value, in the order of the
\* data, and are written by serialize with the same key and value bytes
\* in that order.
C12_UnknownEntriesPreserved ==
    /\ (/\ pc # "build"
        /\ DistinctUnknownKeys(built)
        /\ PSBT_deserialize(PSBT_clear, WithoutUnknown(built)).ok) => res.ok
    /\ (pc # "build" /\ res.ok /\ mutation = <<>>) =>
          StoredUnknown(ptx) =
              [m \in 1..(1 + Len(ptx.inputs) + Len(ptx.outputs)) |->
                  UnknownOf(MapKind(built, m), built.maps[m])]
    /\ (pc = "serialized" /\ res.ok /\ mutation = <<>>) =>
          (sres.ok /\ WireUnknown(built, out) = StoredUnknown(ptx))

C12_Witness ==
    /\ pc = "serialized" /\ res.ok /\ mutation = <<>> /\ sres.ok
    /\ ptx.unknown = <<<<<<15, 1>>, <<>>>>, <<<<15>>, <<2>>>>>>
    /\ WireUnknown(built, out)[1] = ptx.unknown

C12_WitnessOutputMap ==
    /\ pc = "serialized" /\ res.ok /\ mutation = <<>> /\ sres.ok
    /\ Len(ptx.inputs) = 1 /\ Len(ptx.outputs) = 1
    /\ Len(ptx.outputs[1].unknown) = 2
    /\ ptx.outputs[1].unknown[1][1] = <<15, 1>>
    /\ WireUnknown(built, out)[3] = ptx.outputs[1].unknown

(***************************************************************************)
(* Validity of token data (specification TokenSpec)                        *)
(***************************************************************************)
AcceptedBitfields == {16, 32, 33, 34, 48, 49, 50, 96, 97, 98, 112, 113, 114}

\* The rule of the bitfield in words: a structure nibble that is not zero
\* and is below 0x80, a capability of at most 2 and, without the NFT bit,
\* the amount bit, capability 0 and no commitment-length bit.
BitfieldRule(b) ==
    /\ (b \div 16) \in 1..7
    /\ b % 16 <= 2
    /\ ((b \div HasNFT) % 2 = 0) =>
          /\ (b \div HasAmount) % 2 = 1
          /\ b % 16 = 0
          /\ (b \div HasCommitmentLength) % 2 = 0

\* The amount and the commitment of token data in memory are those its
\* bitfield announces.
FieldsFollowBitfield(td) ==
    /\ Len(td.id) = 32
    /\ has_commitment_length(td) <=> td.commitment # <<>>
    /\ IF has_amount(td) THEN td.amount # <<>> /\ ~AmountTooLarge(td.amount)
       ELSE td.amount = <<>>

\* C16: of the 256 values of the bitfield byte, is_valid_bitfield accepts
\* those that follow the rule, which are 0x10, 0x20, 0x21, 0x22, 0x30,
\* 0x31, 0x32, 0x60, 0x61, 0x62, 0x70, 0x71 and 0x72, and no other one;
\* deserialize accepts token data whose fields are those its bitfield
\* announces exactly for these bitfields.
C16_ValidBitfields ==
    token_data # None =>
        /\ is_valid_bitfield(token_data) <=> token_data.bitfield \in AcceptedBitfields
        /\ is_valid_bitfield(token_data) <=> BitfieldRule(token_data.bitfield)
        /\ (tpc = "unwrapped" /\ cut = 0 /\ FieldsFollowBitfield(token_data)) =>
              (unwrapped.token_data # None <=> token_data.bitfield \in AcceptedBitfields)

C16_Witness ==
    /\ tpc = "unwrapped" /\ cut = 0
    /\ token_data # None
    /\ token_data.bitfield = 114
    /\ unwrapped.token_data = token_data

C16_WitnessRejected ==
    /\ tpc = "unwrapped" /\ cut = 0
    /\ token_data # None
    /\ token_data.bitfield = 0
    /\ FieldsFollowBitfield(token_data)
    /\ unwrapped.token_data = None

\* C17: token data that deserialize accepted, and so token data that
\* unwrap_spk returns, has a valid bitfield, an amount of 0 without the
\* amount bit and within 1..2**63-1 with it, a commitment that is empty
\* without the commitment-length bit and non-empty with it, and an amount
\* that is not 0 or the NFT bit.
C17_DeserializedTokenDataIsValid ==
    (tpc = "unwrapped" /\ unwrapped.token_data # None) =>
        /\ is_valid_bitfield(unwrapped.token_data)
        /\ IF has_amount(unwrapped.token_data)
           THEN unwrapped.token_data.amount # <<>> /\ ~AmountTooLarge(unwrapped.token_data.amount)
           ELSE unwrapped.token_data.amount = <<>>
        /\ has_commitment_length(unwrapped.token_data) <=> unwrapped.token_data.commitment # <<>>
        /\ unwrapped.token_data.amount # <<>> \/ has_nft(unwrapped.token_data)

C17_Witness ==
    /\ tpc = "unwrapped" /\ cut > 0
    /\ unwrapped.token_data # None
    /\ has_amount(unwrapped.token_data)
    /\ has_commitment_length(unwrapped.token_data)

(***************************************************************************)
(* Deserializing into objects that hold earlier data (ReuseSpec)           *)
(***************************************************************************)
\* C13: when new objects accept the data (a PSBT the whole of it, a
\* PSBTInput and a PSBTOutput the bytes of one map), objects that hold
\* earlier data accept it too and afterwards hold what the new objects
\* hold.
C13_DeserializeIgnoresPriorState ==
    /\ (pc # "build" /\ PSBT_deserialize(PSBT_clear, src).ok) =>
          (res.ok /\ ptx = PSBT_deserialize(PSBT_clear, src).val)
    /\ (/\ pc \in {"input_parsed", "output_parsed"}
        /\ PSBTInput_deserialize(PSBTInput_clear, BCDataStream(MapBytes(built, 2))).ok) =>
          /\ ires.ok
          /\ pin = PSBTInput_deserialize(PSBTInput_clear, BCDataStream(MapBytes(built, 2))).val
    /\ (/\ pc = "output_parsed"
        /\ PSBTOutput_deserialize(PSBTOutput_clear,
                                  BCDataStream(MapBytes(built, Len(built.maps)))).ok) =>
          /\ ores.ok
          /\ pout = PSBTOutput_deserialize(PSBTOutput_clear,
                                           BCDataStream(MapBytes(built, Len(built.maps)))).val

C13_Witness ==
    /\ pc = "output_parsed"
    /\ prior.inputs # <<>> /\ prior.outputs # <<>>
    /\ res.ok /\ ires.ok /\ ores.ok
    /\ ptx.unknown # <<>> /\ ptx # prior
    /\ pin.unknown # <<>> /\ pin # prior.inputs[1]
    /\ pout.unknown # <<>> /\ pout # prior.outputs[1]

\* No field of p that held data in q holds the same data.
NothingLeftOf(q, p) ==
    /\ q.tx # None => p.tx # q.tx
    /\ q.inputs # <<>> => p.inputs # q.inputs
    /\ q.outputs # <<>> => p.outputs # q.outputs
    /\ q.unknown # <<>> => p.unknown # q.unknown

\* C14: after a deserialize that failed, be it at the magic bytes or
\* later, the PSBT holds in no field what it held before the call.
C14_FailedDeserializeResetsReceiver ==
    (pc # "build" /\ ~res.ok) => NothingLeftOf(prior, ptx)

\* C15: after a deserialize that failed later than at the magic bytes, the
\* PSBT is as a new one: no transaction, no inputs, no outputs, nothing
\* unknown.
C15_FailedParseLeavesDefaultState ==
    (pc # "build" /\ ~res.ok /\ StartsWithMagic(src)) => ptx = PSBT_clear

(***************************************************************************)
(* Repeated keys (ReuseSpec)                                               *)
(***************************************************************************)
\* The j-th of the entries is the first one whose key an earlier entry has.
FirstRepeat(entries, j) ==
    /\ j \in 2..Len(entries)
    /\ \E i \in 1..(j - 1) : entries[i].key = entries[j].key
    /\ \A k \in 1..(j - 1) : \A i \in 1..(k - 1) : entries[i].key # entries[k].key

\* C20: a second entry with an unknown key that the map already holds is
\* rejected with a PSBT serialization error and the map's unknown entries
\* stay what they were before the second entry, in the global map, in an
\* input map and in an output map; so is a second unsigned transaction
\* in the global map, be it the same as the first, which stays.
C20_RepeatedKeysRejected ==
    /\ \A j \in 1..MaxEntries :
          (/\ pc # "build" /\ StartsWithMagic(src) /\ built.maps # <<>>
           /\ FirstRepeat(built.maps[1], j)
           /\ PSBT_global_loop(PSBT_clear,
                               BCDataStream(EntriesBytes(SubSeq(built.maps[1], 1, j - 1)))).ok) =>
              /\ ~res.ok /\ res.err = "PSBTSerializationError"
              /\ ptx = PSBT_global_loop(PSBT_clear,
                           BCDataStream(EntriesBytes(SubSeq(built.maps[1], 1, j - 1)))).val
    /\ \A j \in 1..MaxEntries :
          (/\ pc \in {"input_parsed", "output_parsed"}
           /\ FirstRepeat(built.maps[2], j)
           /\ ~RecognizedKey("input", built.maps[2][j].key)
           /\ PSBTInput_deserialize(PSBTInput_clear,
                  BCDataStream(EntriesBytes(SubSeq(built.maps[2], 1, j - 1)))).ok) =>
              /\ ~ires.ok /\ ires.err = "PSBTSerializationError"
              /\ pin = PSBTInput_deserialize(PSBTInput_clear,
                           BCDataStream(EntriesBytes(SubSeq(built.maps[2], 1, j - 1)))).val
    /\ \A j \in 1..MaxEntries :
          (/\ pc = "output_parsed"
           /\ FirstRepeat(built.maps[Len(built.maps)], j)
           /\ ~RecognizedKey("output", built.maps[Len(built.maps)][j].key)
           /\ PSBTOutput_deserialize(PSBTOutput_clear,
                  BCDataStream(EntriesBytes(SubSeq(built.maps[Len(built.maps)], 1, j - 1)))).ok) =>
              /\ ~ores.ok /\ ores.err = "PSBTSerializationError"
              /\ pout = PSBTOutput_deserialize(PSBTOutput_clear,
                            BCDataStream(EntriesBytes(SubSeq(built.maps[Len(built.maps)], 1, j - 1)))).val

C20_Witness ==
    /\ pc = "output_parsed"
    /\ Len(built.maps) = 2
    /\ FirstRepeat(built.maps[2], 2)
    /\ built.maps[2][1] = Entry(<<15>>, <<1>>)
    /\ built.maps[2][2] = Entry(<<15>>, <<2>>)
    /\ ~res.ok
    /\ ~ires.ok /\ pin.unknown = <<<<<<15>>, <<1>>>>>>
    /\ ~ores.ok /\ pout.unknown = <<<<<<15>>, <<1>>>>>>

C20_WitnessGlobal ==
    /\ pc = "parsed" /\ built.maps # <<>>
    /\ FirstRepeat(built.maps[1], 2)
    /\ built.maps[1][1].key = <<PSBT_GLOBAL_UNSIGNED_TX>>
    /\ built.maps[1][1].val = built.maps[1][2].val
    /\ ~res.ok /\ ptx.tx # None /\ ptx.tx # prior.tx

(***************************************************************************)
(* Round trips of the entities (specification EntitySpec)                  *)
(***************************************************************************)
\* An output without token data whose script goes on, after the marker
\* byte, with bytes that are valid token data.
ReadsAsTokenData(o) ==
    o.token_data = None /\ unwrap_spk(o.script_pub_key).token_data # None

HoldsSuchOutput(e) ==
    \/ e.cls = "CTxOut" /\ ReadsAsTokenData(e.val)
    \/ e.cls = "CMutableTransaction"
       /\ \E i \in 1..Len(e.val.vout) : ReadsAsTokenData(e.val.vout[i])

\* C11 (as claimed): an identifier, outpoint, input, output or transaction
\* with fields in range and valid token data serializes, and the bytes
\* deserialize to an equal value; so does an output without token data
\* whose script begins with the marker byte.
C11_EntityRoundTrip ==
    /\ epc # "start" => wire.ok
    /\ epc = "deserialized" => (decoded.ok /\ decoded.val = entity.val)

\* C11 (amended): the same, except for an output without token data whose
\* script goes on, after the marker byte, with bytes that are valid token
\* data, and for a transaction with such an output.
C11_EntityRoundTripUnlessScriptReadsAsTokenData ==
    /\ epc # "start" => wire.ok
    /\ epc = "deserialized" => (decoded.ok /\ decoded.rest = 0)
    /\ (epc = "deserialized" /\ ~HoldsSuchOutput(entity)) => decoded.val = entity.val

C11_Witness ==
    /\ epc = "deserialized"
    /\ entity.cls = "CMutableTransaction"
    /\ Len(entity.val.vin) = 2 /\ Len(entity.val.vout) = 1
    /\ entity.val.vout[1].token_data = None
    /\ entity.val.vout[1].script_pub_key = <<PREFIX_BYTE, 81>>
    /\ decoded.val = entity.val

(***************************************************************************)
(* ClientHandlerThread (specifications HandlerSpec, HandlerFairSpec)       *)
(***************************************************************************)
\* The i-th thing that happened is the call of a job that raises
\* ValidationError.
RanValidationError(i) == hlog[i].ev = "run" /\ hlog[i].x.kind = "ValidationError"

Events == 1..Len(hlog)

RunSentErrorThenClosed ==
    \A i \in Events : RanValidationError(i) =>
        /\ \A j \in Events : (j > i) => hlog[j].ev # "run"
        /\ hpc \in {"job", "send_error", "finally", "del", "close", "done"}
        /\ \A j \in Events : hlog[j] = Ev("close", ByRun) =>
               \E k \in (i + 1)..(j - 1) : hlog[k] = Ev("send_error", ErrorText(hlog[i].x))
        /\ (\A j \in Events : hlog[j] # Ev("kill", None)) =>
               \A j \in Events : hlog[j].ev = "close" =>
                   \E k \in (i + 1)..(j - 1) : hlog[k] = Ev("send_error", ErrorText(hlog[i].x))
        /\ hpc = "done" => (dead /\ \E j \in Events : hlog[j] = Ev("close", ByRun))

RunEnded ==
    /\ hpc = "done"
    /\ dead
    /\ \E j \in Events : hlog[j] = Ev("close", ByRun)

KilledWithReason(i) ==
    /\ hlog[i].ev = "kill"
    /\ hlog[i].x # None
    /\ \E s \in 1..(i - 1) : hlog[s].ev = "start"

\* After kill(reason) the connection is closed only after send_error(reason).
ClosedOnlyAfterReasonSent ==
    \A i \in Events : KilledWithReason(i) =>
        \A j \in Events : (j > i /\ hlog[j].ev = "close") =>
            \E k \in (i + 1)..(j - 1) : hlog[k] = Ev("send_error", hlog[i].x)

\* After kill(reason) no job is called that was in the queue at the call.
QueuedBeforeKillNotRun ==
    \A i \in Events : KilledWithReason(i) =>
        \A j \in Events : (j > i /\ hlog[j].ev = "run") => hlog[j].x.id \notin before

\* C19: after kill(reason) with a reason, on a started handler, whatever
\* the interleaving with the handler thread and with addjob, the connection
\* is closed only after a job has called send_error(reason), and no job
\* that was queued before the call of kill is run.
C19_KillSendsReasonBeforeClose ==
    /\ ClosedOnlyAfterReasonSent
    /\ QueuedBeforeKillNotRun

(***************************************************************************)
(* Separators (specification Spec)                                         *)
(***************************************************************************)
\* The number of maps of the data that end with a separator.
TerminatedMaps(b) == Len(b.maps) - (IF b.open THEN 1 ELSE 0)

\* C24: PSBT.deserialize accepts data only if the global map and each of
\* the input and output maps of the transaction ends with a separator: data
\* whose global map or last map runs to the end without one is rejected.
C24_EveryMapEndsWithSeparator ==
    (pc # "build" /\ res.ok /\ mutation = <<>>) =>
        TerminatedMaps(built) >= 1 + Len(ptx.tx.vin) + Len(ptx.tx.vout)

(***************************************************************************)
(* What a failed serialize leaves in the caller's stream (Spec)            *)
(***************************************************************************)
\* C25: when PSBT.serialize(vds) fails, vds holds what it held before the
\* call: neither the magic bytes nor a map has been appended.
C25_FailedSerializeWritesNothing ==
    /\ (pc = "serialized" /\ ~sres.ok) => out = <<>>
    /\ (pc = "done" /\ ~sres2.ok) => out2 = <<>>

(***************************************************************************)
(* Scripts off the wire (specification WireSpec)                           *)
(***************************************************************************)
\* C28: for every byte string b, with or without the marker byte and with
\* or without valid token data after it, unwrap_spk(b) returns (t, s)
\* without raising and wrap_spk(t, s) == b.
C28_WrapInvertsUnwrap ==
    /\ tpc \in {"unwrapped", "rewrapped"} => unwrapped.err = ""
    /\ tpc = "rewrapped" => (wire.ok /\ wire.out = wrapped_spk)

\* Token data with a commitment and an amount of 253, and script after it.
C28_Witness ==
    /\ tpc = "rewrapped"
    /\ unwrapped.token_data # None
    /\ unwrapped.token_data.commitment = <<9>>
    /\ unwrapped.token_data.amount = <<253>>
    /\ unwrapped.spk = <<81>>
    /\ wire.out = wrapped_spk

\* An amount of 1 written in three bytes: no token data, the script is b.
C28_WitnessNotMinimal ==
    /\ tpc = "rewrapped"
    /\ wrapped_spk = <<PREFIX_BYTE>> \o Fill(32, 7) \o <<16, 253, 1, 0, 81>>
    /\ unwrapped.token_data = None
    /\ wire.out = wrapped_spk

(***************************************************************************)
(* Keys and values of the fields (specification FieldSpec)                 *)
(***************************************************************************)
\* The types of a map's fields whose key is the type byte alone, and of
\* those whose key holds a public key.
SingleByteTypes(kind) ==
    IF kind = "global" THEN {PSBT_GLOBAL_UNSIGNED_TX}
    ELSE IF kind = "input"
    THEN {PSBT_IN_UTXO, PSBT_IN_SIGHASH, PSBT_IN_REDEEMSCRIPT, PSBT_IN_SCRIPTSIG}
    ELSE {PSBT_OUT_REDEEMSCRIPT}

PubkeyTypes(kind) ==
    IF kind = "input" THEN {PSBT_IN_PARTIAL_SIG, PSBT_IN_BIP32_DERIVATION}
    ELSE IF kind = "output" THEN {PSBT_OUT_BIP32_DERIVATION}
    ELSE {}

WrongKeyLength(kind, key) ==
    \/ key[1] \in SingleByteTypes(kind) /\ Len(key) > 1
    \/ key[1] \in PubkeyTypes(kind) /\ Len(key) \notin {34, 66}

HasWrongKeyLength(kind, entries) ==
    \E i \in 1..Len(entries) : WrongKeyLength(kind, entries[i].key)

\* No key of the unknown map starts with a type of a field of the map.
UnknownIsUnrecognized(kind, unknown) ==
    \A i \in 1..Len(unknown) :
        unknown[i][1] # <<>> /\ unknown[i][1][1] \notin SingleByteTypes(kind) \cup PubkeyTypes(kind)

Rejected(r) == ~r.ok /\ r.err = "PSBTSerializationError"

\* The data holds one input map and the global map is as it must be.
OneInputMap == built.maps[1] = <<Entry(<<PSBT_GLOBAL_UNSIGNED_TX>>, Tx10)>>
OneOutputMap == built.maps[1] = <<Entry(<<PSBT_GLOBAL_UNSIGNED_TX>>, Tx01)>>

\* C21: a key that starts with the type of a field whose key is the type
\* byte alone (global unsigned tx; input UTXO, sighash type, redeem script,
\* final script; output redeem script) and is longer than one byte is
\* rejected with an error and is not stored as an unknown entry; a key of a
\* partial signature or of a BIP-32 derivation is rejected unless it is 34
\* or 66 bytes long.
C21_KeyLengthEnforced ==
    /\ pc # "build" =>
          /\ HasWrongKeyLength("global", built.maps[1]) => Rejected(res)
          /\ (OneInputMap /\ HasWrongKeyLength("input", built.maps[2])) => Rejected(res)
          /\ (OneOutputMap /\ HasWrongKeyLength("output", built.maps[2])) => Rejected(res)
          /\ UnknownIsUnrecognized("global", ptx.unknown)
          /\ \A i \in 1..Len(ptx.inputs) : UnknownIsUnrecognized("input", ptx.inputs[i].unknown)
          /\ \A i \in 1..Len(ptx.outputs) : UnknownIsUnrecognized("output", ptx.outputs[i].unknown)
    /\ pc \in {"input_parsed", "output_parsed"} =>
          /\ HasWrongKeyLength("input", built.maps[2]) => Rejected(ires)
          /\ UnknownIsUnrecognized("input", pin.unknown)
    /\ pc = "output_parsed" =>
          /\ HasWrongKeyLength("output", built.maps[2]) => Rejected(ores)
          /\ UnknownIsUnrecognized("output", pout.unknown)

\* A sighash key of two bytes after an unknown entry: the input is left
\* with the unknown entry alone; as an output map the data is accepted and
\* holds both as unknown entries.
C21_Witness ==
    /\ pc = "output_parsed"
    /\ built.maps[2] = <<Entry(<<15>>, <<2>>), Entry(<<3, 0>>, <<65, 0, 0, 0>>)>>
    /\ Rejected(ires)
    /\ pin.unknown = <<<<<<15>>, <<2>>>>>>
    /\ pin.sighash_type = <<>>
    /\ ores.ok
    /\ Len(pout.unknown) = 2

\* A derivation key of 35 bytes in an output map.
C21_WitnessPubkey ==
    /\ pc = "output_parsed"
    /\ built.maps[2] = <<Entry(<<2>> \o PubkeyA \o <<0>>, SubSeq(KeypathBytes, 1, 8))>>
    /\ Rejected(ores)
    /\ Rejected(ires)
    /\ OneOutputMap /\ Rejected(res)

\* The entries of a map whose key is typ and a public key that is a point.
DerivationEntries(typ, entries) ==
    SelectSeq(entries, LAMBDA e : e.key[1] = typ /\ Len(e.key) \in {34, 66} /\ IsPoint(Tail(e.key)))

\* value is the fingerprint and the indices of keypath.
HoldsValue(keypath, value) ==
    /\ keypath.fingerprint = SubSeq(value, 1, 4)
    /\ Len(keypath.path) = (Len(value) \div 4) - 1
    /\ \A i \in 1..Len(keypath.path) :
           keypath.path[i] = Norm(SubSeq(value, 4 * i + 1, 4 * i + 4))

\* What a call on a map with derivation entries of type typ leaves in
\* hd_keypaths, and how it ends, r.
DerivationValuesChecked(typ, entries, r, hd_keypaths) ==
    /\ r.err # "AssertionError"
    /\ \A i \in 1..Len(hd_keypaths) :
         \E j \in 1..Len(entries) :
            /\ entries[j].key = <<typ>> \o hd_keypaths[i][1]
            /\ Len(entries[j].val) > 0 /\ Len(entries[j].val) % 4 = 0
            /\ HoldsValue(hd_keypaths[i][2], entries[j].val)
    /\ \A j \in 1..Len(DerivationEntries(typ, entries)) :
         LET value == DerivationEntries(typ, entries)[j].val
         IN IF Len(value) > 0 /\ Len(value) % 4 = 0
            THEN r.ok => Len(hd_keypaths) = Len(DerivationEntries(typ, entries))
            ELSE Rejected(r) /\ Len(hd_keypaths) = j - 1

\* C22: a BIP-32 derivation value is accepted only if its length is a
\* positive multiple of 4; then the fingerprint is its first 4 bytes and
\* the path has length/4 - 1 elements, so that the assertion of
\* _deserialize_hd_keypath does not fail; a value of length 0 or of a
\* length that 4 does not divide is rejected and nothing is added to the
\* keypath map.
C22_DerivationValueLength ==
    /\ pc \in {"input_parsed", "output_parsed"} =>
          DerivationValuesChecked(PSBT_IN_BIP32_DERIVATION, built.maps[2], ires, pin.hd_keypaths)
    /\ pc = "output_parsed" =>
          DerivationValuesChecked(PSBT_OUT_BIP32_DERIVATION, built.maps[2], ores, pout.hd_keypaths)
    /\ pc # "build" => res.err # "AssertionError"

\* A value of 12 bytes in an input map: a fingerprint and two indices.
C22_Witness ==
    /\ pc = "input_parsed"
    /\ built.maps[2] = <<Entry(<<6>> \o PubkeyA, KeypathBytes)>>
    /\ ires.ok
    /\ pin.hd_keypaths = <<<<PubkeyA, KeyOriginInfo(<<217, 12, 106, 79>>, <<<<0, 0, 0, 128>>, <<1>>>>)>>>>

\* Values of 5 and of 0 bytes.
C22_WitnessRejected ==
    /\ pc = "output_parsed"
    /\ \E n \in {0, 5} :
          built.maps[2] = <<Entry(<<15>>, <<2>>), Entry(<<2>> \o PubkeyA, SubSeq(KeypathBytes, 1, n))>>
    /\ Rejected(ores)
    /\ pout.hd_keypaths = <<>>
    /\ pout.unknown # <<>>

IsProperPrefix(a, b) == Len(a) < Len(b) /\ a = SubSeq(b, 1, Len(a))

\* value is one of the serializations with bytes added or bytes missing.
TooLongOrTooShort(value, serializations) ==
    \E s \in serializations : IsProperPrefix(value, s) \/ IsProperPrefix(s, value)

HasInexactValue(entries, key, serializations) ==
    \E i \in 1..Len(entries) :
        entries[i].key = key /\ TooLongOrTooShort(entries[i].val, serializations)

HasInexactSighash(entries) ==
    \E i \in 1..Len(entries) :
        entries[i].key = <<PSBT_IN_SIGHASH>> /\ Len(entries[i].val) # 4

SerializedTxs == {Tx00, Tx10, Tx11, Tx01}
SerializedUtxos == {UtxoPlain, UtxoToken}

\* C23: the value of the global unsigned transaction, of an input's UTXO
\* and of an input's sighash type is rejected when bytes remain after the
\* transaction, the output or the 4-byte integer, and when it is too short
\* to hold it.
C23_NestedValuesConsumedExactly ==
    /\ pc # "build" =>
          /\ HasInexactValue(built.maps[1], <<PSBT_GLOBAL_UNSIGNED_TX>>, SerializedTxs) => ~res.ok
          /\ (OneInputMap /\ HasInexactValue(built.maps[2], <<PSBT_IN_UTXO>>, SerializedUtxos))
                => ~res.ok
          /\ (OneInputMap /\ HasInexactSighash(built.maps[2])) => ~res.ok
    /\ pc \in {"input_parsed", "output_parsed"} =>
          /\ HasInexactValue(built.maps[2], <<PSBT_IN_UTXO>>, SerializedUtxos) => ~ires.ok
          /\ HasInexactSighash(built.maps[2]) => ~ires.ok
          /\ (\E u \in SerializedUtxos : built.maps[2] = <<Entry(<<PSBT_IN_UTXO>>, u)>>)
                => (ires.ok /\ pin.utxo # None)
          /\ built.maps[2] = <<Entry(<<PSBT_IN_SIGHASH>>, <<65, 0, 0, 0>>)>>
                => (ires.ok /\ pin.sighash_type = <<65>>)

\* An output with token data followed by one more byte, and a sighash type
\* of three bytes, as the value in an input map.
C23_Witness ==
    /\ pc = "input_parsed"
    /\ \/ built.maps[2] = <<Entry(<<PSBT_IN_UTXO>>, UtxoToken \o <<81>>)>>
       \/ built.maps[2] = <<Entry(<<PSBT_IN_SIGHASH>>, <<1, 1, 1>>)>>
    /\ ~ires.ok
    /\ OneInputMap /\ ~res.ok

\* A transaction followed by one more byte.
C23_WitnessGlobal ==
    /\ pc = "parsed"
    /\ built.maps[1] = <<Entry(<<PSBT_GLOBAL_UNSIGNED_TX>>, Tx10 \o <<0>>)>>
    /\ Rejected(res)

(***************************************************************************)
(* What a successful PSBT.deserialize leaves (specification Spec)          *)
(***************************************************************************)
\* The state that PSBT.serialize needs and that deserialize promises.
WellFormed(p) ==
    /\ p.tx # None
    /\ \A i \in 1..Len(p.tx.vin) : p.tx.vin[i].script_sig = <<>>
    /\ Len(p.inputs) = Len(p.tx.vin)
    /\ Len(p.outputs) = Len(p.tx.vout)
    /\ UnknownIsUnrecognized("global", p.unknown)
    /\ \A i \in 1..Len(p.inputs) : UnknownIsUnrecognized("input", p.inputs[i].unknown)
    /\ \A i \in 1..Len(p.outputs) : UnknownIsUnrecognized("output", p.outputs[i].unknown)

\* C29: after a successful PSBT.deserialize the receiver holds a
\* transaction whose inputs all have an empty script, as many input maps
\* and output maps as the transaction has inputs and outputs, and unknown
\* maps without an empty key and without a key of a recognized type; and
\* PSBT.serialize of it does not raise.
C29_DeserializedPSBTSerializes ==
    /\ (pc \in {"parsed", "serialized", "parsed2", "done"} /\ res.ok /\ mutation = <<>>)
          => WellFormed(ptx)
    /\ (pc \in {"serialized", "parsed2", "done"} /\ res.ok /\ mutation = <<>>) => sres.ok
    /\ (pc \in {"parsed2", "done"} /\ res2.ok) => WellFormed(ptx2)
    /\ (pc = "done" /\ res2.ok) => sres2.ok

\* A PSBT with an input map that holds an unknown entry and a UTXO with
\* token data, parsed and serialized.
C29_Witness ==
    /\ pc = "serialized" /\ res.ok /\ mutation = <<>> /\ sres.ok
    /\ Len(ptx.inputs) = 1
    /\ ptx.inputs[1].unknown # <<>>
    /\ ptx.inputs[1].utxo # None
    /\ ptx.inputs[1].utxo.token_data # None

(***************************************************************************)
(* Equality and the wire form (specification OrderSpec)                    *)
(***************************************************************************)
\* The dicts that serialize writes hold their entries in the same order.
SameWireOrder(p, q) ==
    /\ p.unknown = q.unknown
    /\ \A i \in 1..Len(p.inputs) :
          /\ p.inputs[i].unknown = q.inputs[i].unknown
          /\ p.inputs[i].final_script_sig = <<>>
                => /\ p.inputs[i].partial_sigs = q.inputs[i].partial_sigs
                   /\ p.inputs[i].hd_keypaths = q.inputs[i].hd_keypaths
    /\ \A i \in 1..Len(p.outputs) :
          /\ p.outputs[i].unknown = q.outputs[i].unknown
          /\ p.outputs[i].hd_keypaths = q.outputs[i].hd_keypaths

BothSerialized ==
    pc = "done" /\ res.ok /\ res2.ok /\ sres.ok /\ sres2.ok

\* C27 as stated: for PSBTs p and q that both serialize, p == q implies
\* serialize(p) == serialize(q), also when their unknown, partial-signature
\* or HD-keypath maps hold the same entries inserted in a different order.
C27_EqualImpliesSameBytes ==
    (BothSerialized /\ PSBT_eq(ptx, ptx2)) => out = out2

\* C27 amended: for PSBTs p and q that both serialize and with p == q,
\* serialize(p) == serialize(q) exactly if the maps that serialize writes
\* (unknown, the HD keypaths of an output, the partial signatures and HD
\* keypaths of an input that is not finalized) hold their entries in the
\* same insertion order.
C27_EqualBytesIffSameOrder ==
    (BothSerialized /\ PSBT_eq(ptx, ptx2)) => (out = out2 <=> SameWireOrder(ptx, ptx2))

\* Two partial signatures inserted in the two orders: equal PSBTs,
\* different bytes.
C27_Witness ==
    /\ BothSerialized /\ PSBT_eq(ptx, ptx2)
    /\ Len(ptx.inputs[1].partial_sigs) = 2
    /\ ptx.inputs[1].final_script_sig = <<>>
    /\ ptx.inputs[1].partial_sigs # ptx2.inputs[1].partial_sigs
    /\ out # out2

\* The same in a finalized input: equal PSBTs, equal bytes.
C27_WitnessFinalized ==
    /\ BothSerialized /\ PSBT_eq(ptx, ptx2)
    /\ Len(ptx.inputs[1].partial_sigs) = 2
    /\ ptx.inputs[1].final_script_sig # <<>>
    /\ ptx.inputs[1].partial_sigs # ptx2.inputs[1].partial_sigs
    /\ out = out2

(***************************************************************************)
(* Who a deserialize changes (specification AliasSpec)                     *)
(***************************************************************************)
\* C26: deserialize changes only its receiver: with an identifier t and two
\* outpoints a and b, however they were constructed (also both from the
\* object t), a.deserialize leaves the values of b and t as they were and
\* t.deserialize leaves the values of a and b as they were.
C26_DeserializeChangesOnlyReceiver ==
    epc = "deserialized" =>
        /\ Snapshot(entity).b = decoded.before.b
        /\ decoded.receiver = "a" => Snapshot(entity).t = decoded.before.t
        /\ decoded.receiver = "t" => Snapshot(entity).a = decoded.before.a

(***************************************************************************)
(* stop and the accept loop (specification ServerFairSpec)                 *)
(***************************************************************************)
\* After stop() has returned run creates and starts no client handler, and
\* closes the socket it has accepted.
NothingNewAfterStop ==
    stoppc = "returned" =>
        /\ Len(clients') = Len(clients)
        /\ Started' = Started
        /\ (rpc = "check" /\ rpc' # "check") => sock' = "closed"

\* After stop() has returned the accept loop ends and the listening socket
\* is closed.
StoppedLeadsToClosed ==
    (stoppc = "returned") ~> (rpc = "done" /\ listensock = "closed")

\* C30 as stated: in every interleaving of stop() with run(), once stop()
\* has returned no client handler is created or started and a socket
\* accepted afterwards is closed, every client handler that was started
\* has had kill(reason) called on it, and the accept loop eventually ends
\* and closes the listening socket.
C30_StopKillsEveryStartedClient ==
    /\ [][NothingNewAfterStop]_vars
    /\ [](stoppc = "returned" =>
            \A c \in Started : clients[c].killed = [reason |-> stop_reason])
    /\ StoppedLeadsToClosed

\* C30 amended: as above, with kill(reason) called on every client
\* handler that was started and whose thread has not ended.
C30_StopKillsEveryRunningClient ==
    /\ [][NothingNewAfterStop]_vars
    /\ [](stoppc = "returned" =>
            \A c \in Started :
                clients[c].state = "started" => clients[c].killed = [reason |-> stop_reason])
    /\ StoppedLeadsToClosed

\* stop() returned while run had a second connection in hand: the first
\* client was killed, the socket of the second was closed, run has ended.
C30_Witness ==
    /\ stoppc = "returned" /\ rpc = "done" /\ listensock = "closed"
    /\ sock = "closed"
    /\ Len(clients) = 1
    /\ clients[1].state = "started"
    /\ clients[1].killed = [reason |-> stop_reason]

\* A client that had ended and was collected before stop(): not killed.
C30_WitnessCollected ==
    /\ stoppc = "returned"
    /\ \E c \in Started : clients[c].state = "ended" /\ clients[c].killed = None
====
